---- MODULE Spec2Model ----
\* feedtape-backend: the text-to-speech pipeline (TtsService::synthesize), its
\* usage store and its result cache, as a state machine of concurrent calls.
EXTENDS Integers, Sequences, FiniteSets, TLC

\* ---------------------------------------------------------------- bounds
\* MAX_BATCH_SIZE of service.rs:16 is 3000 bytes; the model scales it down so
\* that texts of a few characters split into several batches.
MaxBatchSize == 4
\* Initial usage rows lie at most MaxSlack characters under the daily limit.
MaxSlack == 1
\* The clock advances at most MaxDays days past the first day.
MaxDays == 1
\* The texts given to split_into_batches have at most MaxTextLen characters.
MaxTextLen == 7
\* The raw texts given to clean_text alone have at most MaxRawLen characters.
MaxRawLen == 3

\* ------------------------------------------------------- program constants
FREE_CHARACTER_LIMIT == 20000
PRO_CHARACTER_LIMIT == 200000
TRIAL_DAYS == 7

\* ------------------------------------------------------------------- text
\* A text is a sequence of characters. "E" stands for a two-byte character
\* (such as e-acute), "<b>" for an inline markup tag, "H" for the URL scheme
\* prefix "http://", "&lt;b&gt;" for the same tag written with character
\* references; str.len() in Rust counts bytes.
Whitespace == {" "}
Terminators == {".", "!", "?"}

ByteLen(ch) ==
    CASE ch = "E" -> 2
      [] ch = "<b>" -> 3
      [] ch = "H" -> 7
      [] ch = "&lt;b&gt;" -> 10
      [] OTHER -> 1

RECURSIVE StrLen(_)
StrLen(s) == IF s = <<>> THEN 0 ELSE ByteLen(Head(s)) + StrLen(Tail(s))

\* First index >= i of s whose character is not in S (Len(s) + 1 if none).
RECURSIVE SkipWhile(_, _, _)
SkipWhile(s, i, S) ==
    IF i <= Len(s) /\ s[i] \in S THEN SkipWhile(s, i + 1, S) ELSE i

\* str::trim: drop leading and trailing whitespace.
RECURSIVE TrimEnd(_)
TrimEnd(s) ==
    IF s # <<>> /\ s[Len(s)] \in Whitespace THEN TrimEnd(SubSeq(s, 1, Len(s) - 1)) ELSE s

Trim(s) == LET i == SkipWhile(s, 1, Whitespace) IN TrimEnd(SubSeq(s, i, Len(s)))

\* html2text::from_read: markup tags do not appear in the rendered text, and
\* character references are rendered as the characters they stand for.
RenderHtml(s) ==
    LET shown == SelectSeq(s, LAMBDA ch : ch # "<b>")
    IN [i \in 1..Len(shown) |-> IF shown[i] = "&lt;b&gt;" THEN "<b>" ELSE shown[i]]

\* Regex https?://[^\s]+ replaced by "": the scheme prefix followed by at least
\* one non-whitespace character is removed up to the next whitespace.
RECURSIVE RemoveUrls(_, _)
RemoveUrls(s, i) ==
    IF i > Len(s) THEN <<>>
    ELSE IF s[i] = "H" /\ i < Len(s) /\ s[i + 1] \notin Whitespace
         THEN RemoveUrls(s, SkipWhile(s, i, {"a", "E", ".", "!", "?", "H", "<b>"}))
         ELSE <<s[i]>> \o RemoveUrls(s, i + 1)

\* Regex \s+ replaced by " ".
RECURSIVE CollapseWhitespace(_, _)
CollapseWhitespace(s, i) ==
    IF i > Len(s) THEN <<>>
    ELSE IF s[i] \in Whitespace
         THEN <<" ">> \o CollapseWhitespace(s, SkipWhile(s, i, Whitespace))
         ELSE <<s[i]>> \o CollapseWhitespace(s, i + 1)

clean_text(text) ==
    LET plain_text == RenderHtml(text)
        without_urls == RemoveUrls(plain_text, 1)
        normalized == CollapseWhitespace(without_urls, 1)
    IN Trim(normalized)

\* Regex ([.!?]+\s+), find_iter: the end offsets (in characters consumed) of
\* the successive leftmost non-overlapping matches at or after index i.
RECURSIVE SentenceEnds(_, _)
SentenceEnds(s, i) ==
    IF i > Len(s) THEN <<>>
    ELSE IF s[i] \notin Terminators THEN SentenceEnds(s, i + 1)
    ELSE LET q == SkipWhile(s, i, Terminators)
             r == SkipWhile(s, q, Whitespace)
         IN IF r > q THEN <<r - 1>> \o SentenceEnds(s, r) ELSE SentenceEnds(s, q)

\* chars.chunks(n): consecutive chunks of n characters, the last one shorter.
RECURSIVE Chunks(_, _)
Chunks(s, n) ==
    IF s = <<>> THEN <<>>
    ELSE IF Len(s) <= n THEN <<s>>
    ELSE <<SubSeq(s, 1, n)>> \o Chunks(SubSeq(s, n + 1, Len(s)), n)

\* The for-loop over the sentence matches: st = [batches, current_batch, last_end].
RECURSIVE SplitLoop(_, _, _, _)
SplitLoop(text, ends, st, max_size) ==
    IF ends = <<>> THEN st
    ELSE LET sentence == SubSeq(text, st.last_end + 1, Head(ends))
             flush == st.current_batch # <<>>
                      /\ StrLen(st.current_batch) + StrLen(sentence) > max_size
             batches == IF flush THEN Append(st.batches, Trim(st.current_batch))
                        ELSE st.batches
             current == IF flush THEN <<>> ELSE st.current_batch
         IN SplitLoop(text, Tail(ends),
                      [batches |-> batches,
                       current_batch |-> current \o sentence,
                       last_end |-> Head(ends)],
                      max_size)

\* split_into_batches without the early return for a text that fits one batch.
split_into_batches_no_shortcut(text, max_size) ==
      LET st == SplitLoop(text, SentenceEnds(text, 1),
                          [batches |-> <<>>, current_batch |-> <<>>, last_end |-> 0],
                          max_size)
          hasRest == st.last_end < Len(text)
          remaining == SubSeq(text, st.last_end + 1, Len(text))
          flush == hasRest /\ st.current_batch # <<>>
                   /\ StrLen(st.current_batch) + StrLen(remaining) > max_size
          batches1 == IF flush THEN Append(st.batches, Trim(st.current_batch))
                      ELSE st.batches
          current1 == IF flush THEN <<>> ELSE st.current_batch
          hard == hasRest /\ StrLen(remaining) > max_size
          batches2 == IF hard THEN batches1 \o Chunks(remaining, max_size) ELSE batches1
          current2 == IF hasRest /\ ~hard THEN current1 \o remaining ELSE current1
      IN IF current2 # <<>> THEN Append(batches2, Trim(current2)) ELSE batches2

split_into_batches(text, max_size) ==
    IF StrLen(text) <= max_size THEN <<text>>
    ELSE
      LET st == SplitLoop(text, SentenceEnds(text, 1),
                          [batches |-> <<>>, current_batch |-> <<>>, last_end |-> 0],
                          max_size)
          hasRest == st.last_end < Len(text)
          remaining == SubSeq(text, st.last_end + 1, Len(text))
          flush == hasRest /\ st.current_batch # <<>>
                   /\ StrLen(st.current_batch) + StrLen(remaining) > max_size
          batches1 == IF flush THEN Append(st.batches, Trim(st.current_batch))
                      ELSE st.batches
          current1 == IF flush THEN <<>> ELSE st.current_batch
          hard == hasRest /\ StrLen(remaining) > max_size
          batches2 == IF hard THEN batches1 \o Chunks(remaining, max_size) ELSE batches1
          current2 == IF hasRest /\ ~hard THEN current1 \o remaining ELSE current1
      IN IF current2 # <<>> THEN Append(batches2, Trim(current2)) ELSE batches2


\* ------------------------------------------------------------------ stores
\* The users table. "zoe" is a caller id with no row.
Users ==
    [alice |-> [subscription_tier |-> "Free", created_at |-> 0],
     bob   |-> [subscription_tier |-> "Pro",  created_at |-> 0]]
UserIds == {"alice", "bob", "zoe"}
Links == {"l1", "l2"}
\* Calls are numbered in order of arrival.
Calls == 1..2
None == "None"

\* Raw request texts: whitespace only; one word in markup; four sentences
\* that do not fit one batch.
Texts ==
    { <<" ">>,
      <<"<b>", "a">>,
      <<"a", ".", " ", " ", "a", ".", " ", "a", ".", " ", "a">> }

Languages == {"English", "Spanish", "French", "German", "Italian", "Portuguese"}
Letters == {"a", "E"}

\* LanguageDetector::detect_of (lingua): a language or no match, the same
\* answer for the same text. The model's texts are German; a text without a
\* letter has no match.
detect_language_of(text) ==
    IF \E i \in 1..Len(text) : text[i] \in Letters THEN "German" ELSE None

VARIABLES
    now,             \* Utc::now(), in whole days
    usage_tracking,  \* the usage_tracking table: a sequence of rows
    cache_enabled,   \* Config::tts_cache_enabled
    cache,           \* the result cache: source_link -> stored result (a partial map)
    calls,           \* the in-flight and finished synthesize calls
    usage_at_start,  \* history: the usage_tracking table of the initial state
    refresh_tokens,  \* the refresh_tokens table: token -> row (a partial map)
    auth_calls,      \* the in-flight and finished AuthService calls
    feeds,           \* the feeds table: a set of rows
    feed_calls       \* the in-flight and finished FeedService calls

ttsVars == <<now, usage_tracking, cache_enabled, cache, calls, usage_at_start>>
authVars == <<refresh_tokens, auth_calls>>
feedVars == <<feeds, feed_calls>>
vars == <<ttsVars, authVars, feedVars>>

\* No refresh token stored and no AuthService call made.
AuthIdle ==
    /\ refresh_tokens = <<>>
    /\ auth_calls = <<>>

\* No feed stored and no FeedService call made.
FeedIdle ==
    /\ feeds = {}
    /\ feed_calls = <<>>

\* UserRepository::find_by_id: Option<User> as a sequence of at most one row.
find_by_id(user_id) == IF user_id \in DOMAIN Users THEN <<Users[user_id]>> ELSE <<>>

\* is_trial_expired with the window's last day counted in: days_since_signup > 7.
is_trial_expired_late(user) ==
    LET days_since_signup == now - user.created_at
    IN user.subscription_tier = "Free" /\ days_since_signup > TRIAL_DAYS

\* User::is_trial_expired
is_trial_expired(user) ==
    LET days_since_signup == now - user.created_at
    IN user.subscription_tier = "Free" /\ days_since_signup >= TRIAL_DAYS

\* The rows of (user_id, date), in table order.
RowsOf(table, user_id, date) ==
    SelectSeq(table, LAMBDA r : r.user_id = user_id /\ r.date = date)

\* UsageRepository::get_today_usage: fetch_optional of the row of (user, today),
\* Option<UsageRecord> as a sequence of at most one row.
get_today_usage(user_id) ==
    LET rows == RowsOf(usage_tracking, user_id, now)
    IN IF rows = <<>> THEN <<>> ELSE <<rows[1]>>

\* increment_usage whose DO UPDATE overwrites the counters with the inserted
\* values instead of adding to them.
increment_usage_overwrite(table, user_id, characters, today) ==
    IF \E i \in 1..Len(table) : table[i].user_id = user_id /\ table[i].date = today
    THEN [i \in 1..Len(table) |->
            IF table[i].user_id = user_id /\ table[i].date = today
            THEN [table[i] EXCEPT
                    !.characters_used = characters,
                    !.articles_synthesized = 1]
            ELSE table[i]]
    ELSE Append(table, [user_id |-> user_id, date |-> today,
                        characters_used |-> characters,
                        articles_synthesized |-> 1])

\* UsageRepository::increment_usage: INSERT ... ON CONFLICT (user_id, date) DO
\* UPDATE, one atomic statement.
increment_usage(table, user_id, characters, today) ==
    IF \E i \in 1..Len(table) : table[i].user_id = user_id /\ table[i].date = today
    THEN [i \in 1..Len(table) |->
            IF table[i].user_id = user_id /\ table[i].date = today
            THEN [table[i] EXCEPT
                    !.characters_used = @ + characters,
                    !.articles_synthesized = @ + 1]
            ELSE table[i]]
    ELSE Append(table, [user_id |-> user_id, date |-> today,
                        characters_used |-> characters,
                        articles_synthesized |-> 1])

\* The daily character limit of guard_usage's match on the tier.
character_limit(user) ==
    IF user.subscription_tier = "Free" THEN FREE_CHARACTER_LIMIT ELSE PRO_CHARACTER_LIMIT

\* The limit test with the boundary refused: used + requested >= limit.
exceeds_limit_inclusive(characters_used_today, char_count, limit) ==
    characters_used_today + char_count >= limit

\* guard_usage's final test: the request is refused when it would exceed the limit.
exceeds_limit(characters_used_today, char_count, limit) ==
    characters_used_today + char_count > limit

\* language::get_voice_for_language (the Polly table).
get_voice_for_language(language) ==
    CASE language = "English" -> "Joanna"
      [] language = "Spanish" -> "Lupe"
      [] language = "French" -> "Lea"
      [] language = "German" -> "Vicki"
      [] language = "Italian" -> "Bianca"
      [] language = "Portuguese" -> "Ines"

\* TtsService::detect_language: the classifier's language, English on no match.
detect_language(text) ==
    LET language == detect_language_of(text)
    IN IF language = None THEN "English" ELSE language

\* The audio bytes one successful call_polly returns: opaque, determined by
\* the request (text, voice) and by the provider call that produced them.
call_polly(c, batch, language) ==
    <<[text |-> batch, voice |-> get_voice_for_language(language), by |-> c]>>

\* ------------------------------------------------------------------- calls
IdleCall ==
    [pc |-> "idle", user_id |-> None, text |-> <<>>, link |-> None,
     cleaned_text |-> <<>>, char_count |-> 0, language_detected |-> None,
     batches |-> <<>>, inflight |-> {}, sent |-> <<>>, merged_audio |-> <<>>,
     used_seen |-> -1, failed_batch |-> 0, increments |-> 0, cache_hit |-> FALSE,
     started_at |-> -1, tracked_at |-> -1,
     result |-> None, audio_data |-> <<>>]

Finish(call, result) == [call EXCEPT !.pc = "done", !.result = result, !.inflight = {}]

\* A lookup that ignores the key: any stored result answers.
cache_get_any(link) ==
    IF cache_enabled /\ DOMAIN cache # {}
    THEN <<cache[CHOOSE l \in DOMAIN cache : TRUE]>>
    ELSE <<>>

\* ResultCache lookup (orchestrator step 1): the stored result of the link, as
\* a sequence of at most one entry; nothing when the cache is disabled.
cache_get(link) ==
    IF cache_enabled /\ link \in DOMAIN cache THEN <<cache[link]>> ELSE <<>>

\* ResultCache write (orchestrator step 10): keyed by the link alone.
cache_insert(link, result) ==
    IF cache_enabled
    THEN [l \in DOMAIN cache \cup {link} |-> IF l = link THEN result ELSE cache[l]]
    ELSE cache

\* The call returns the stored result of a cache hit.
ServeFromCache(call, entry) ==
    [Finish(call, "Ok") EXCEPT
        !.cache_hit = TRUE,
        !.audio_data = entry.audio_data,
        !.language_detected = entry.language_detected,
        !.char_count = entry.char_count]

\* synthesize answering from the cache only callers that have a user row.
Synthesize_HitChecksUser(c, user_id, text, link) ==
    /\ calls[c].pc = "idle"
    /\ \A d \in Calls : d < c => calls[d].pc # "idle"
    /\ LET request == [calls[c] EXCEPT !.user_id = user_id, !.text = text,
                                       !.link = link, !.started_at = now]
           hit == IF find_by_id(user_id) = <<>> THEN <<>> ELSE cache_get(link)
           cleaned_text == clean_text(text)
       IN calls' = [calls EXCEPT ![c] =
            IF hit # <<>> THEN ServeFromCache(request, hit[1])
            ELSE [request EXCEPT
                    !.pc = "find_user",
                    !.cleaned_text = cleaned_text,
                    !.char_count = StrLen(cleaned_text),
                    !.language_detected = detect_language(cleaned_text)]]
    /\ UNCHANGED <<now, usage_tracking, cache_enabled, cache, usage_at_start, authVars, feedVars>>

\* synthesize, up to its first await: (cache lookup,) clean the text, detect
\* the language, then ask the user store for the user.
Synthesize(c, user_id, text, link) ==
    /\ calls[c].pc = "idle"
    /\ \A d \in Calls : d < c => calls[d].pc # "idle"
    /\ LET request == [calls[c] EXCEPT !.user_id = user_id, !.text = text,
                                       !.link = link, !.started_at = now]
           hit == cache_get(link)
           cleaned_text == clean_text(text)
       IN calls' = [calls EXCEPT ![c] =
            IF hit # <<>> THEN ServeFromCache(request, hit[1])
            ELSE [request EXCEPT
                    !.pc = "find_user",
                    !.cleaned_text = cleaned_text,
                    !.char_count = StrLen(cleaned_text),
                    !.language_detected = detect_language(cleaned_text)]]
    /\ UNCHANGED <<now, usage_tracking, cache_enabled, cache, usage_at_start, authVars, feedVars>>

\* find_user behind a per-link lock: a call waits while an earlier call for
\* the same link is still in the pipeline.
FindUser_PerKeyLock(c, db_ok) ==
    /\ calls[c].pc = "find_user"
    /\ \A d \in Calls :
          (d < c /\ calls[d].link = calls[c].link) => calls[d].pc = "done"
    /\ calls' = [calls EXCEPT ![c] =
            IF ~db_ok THEN Finish(@, "Dependency")
            ELSE IF find_by_id(@.user_id) = <<>> THEN Finish(@, "Invalid")
            ELSE [@ EXCEPT !.pc = "guard_usage"]]
    /\ UNCHANGED <<now, usage_tracking, cache_enabled, cache, usage_at_start, authVars, feedVars>>

\* find_user: the user store answers; a store error is a Dependency error, a
\* missing row an Invalid one.
FindUser(c, db_ok) ==
    /\ calls[c].pc = "find_user"
    /\ calls' = [calls EXCEPT ![c] =
            IF ~db_ok THEN Finish(@, "Dependency")
            ELSE IF find_by_id(@.user_id) = <<>> THEN Finish(@, "Invalid")
            ELSE [@ EXCEPT !.pc = "guard_usage"]]
    /\ UNCHANGED <<now, usage_tracking, cache_enabled, cache, usage_at_start, authVars, feedVars>>

\* guard_usage charging the request before it decides.
GuardUsage_ChargesFirst(c, db_ok) ==
    /\ calls[c].pc = "guard_usage"
    /\ LET call == calls[c]
           user == find_by_id(call.user_id)[1]
           usage == get_today_usage(call.user_id)
           characters_used_today == IF usage = <<>> THEN 0 ELSE usage[1].characters_used
       IN /\ calls' = [calls EXCEPT ![c] =
                IF ~db_ok THEN Finish(@, "Dependency")
                ELSE IF is_trial_expired(user)
                        \/ exceeds_limit(characters_used_today, call.char_count,
                                         character_limit(user))
                     THEN [Finish(@, "PaymentRequired") EXCEPT
                              !.used_seen = characters_used_today]
                ELSE [@ EXCEPT !.pc = "call_polly",
                               !.used_seen = characters_used_today,
                               !.batches = split_into_batches(call.cleaned_text, MaxBatchSize),
                               !.inflight = {1},
                               !.sent = <<1>>]]
          /\ usage_tracking' =
                increment_usage(usage_tracking, call.user_id, call.char_count, now)
    /\ UNCHANGED <<now, cache_enabled, cache, usage_at_start, authVars, feedVars>>

\* guard_usage after get_today_usage has answered, then split_into_batches and
\* the start of synthesize_batches: the request for the first batch is sent.
GuardUsage(c, db_ok) ==
    /\ calls[c].pc = "guard_usage"
    /\ LET call == calls[c]
           user == find_by_id(call.user_id)[1]
           usage == get_today_usage(call.user_id)
           characters_used_today == IF usage = <<>> THEN 0 ELSE usage[1].characters_used
           batches == split_into_batches(call.cleaned_text, MaxBatchSize)
       IN calls' = [calls EXCEPT ![c] =
            IF ~db_ok THEN Finish(@, "Dependency")
            ELSE IF is_trial_expired(user)
                 THEN [Finish(@, "PaymentRequired") EXCEPT
                          !.used_seen = characters_used_today]
            ELSE IF exceeds_limit(characters_used_today, call.char_count,
                                  character_limit(user))
                 THEN [Finish(@, "PaymentRequired") EXCEPT
                          !.used_seen = characters_used_today]
            ELSE IF batches = <<>>
                 THEN [@ EXCEPT !.pc = "track_usage",
                                !.used_seen = characters_used_today]
            ELSE [@ EXCEPT !.pc = "call_polly",
                           !.used_seen = characters_used_today,
                           !.batches = batches,
                           !.inflight = {1},
                           !.sent = <<1>>]]
    /\ UNCHANGED <<now, usage_tracking, cache_enabled, cache, usage_at_start, authVars, feedVars>>

\* synthesize_batches putting each batch's audio in front of the merged audio.
CallPollyOk_Prepend(c) ==
    /\ calls[c].pc = "call_polly"
    /\ \E k \in calls[c].inflight :
         LET call == calls[c]
             audio_data == call_polly(c, call.batches[k], call.language_detected)
             merged_audio == audio_data \o call.merged_audio
         IN calls' = [calls EXCEPT ![c] =
              IF k < Len(call.batches)
              THEN [@ EXCEPT !.merged_audio = merged_audio,
                             !.inflight = {k + 1},
                             !.sent = Append(@, k + 1)]
              ELSE [@ EXCEPT !.merged_audio = merged_audio,
                             !.inflight = {},
                             !.pc = "track_usage"]]
    /\ UNCHANGED <<now, usage_tracking, cache_enabled, cache, usage_at_start, authVars, feedVars>>

\* synthesize_batches: the provider answers the batch in flight with audio;
\* the audio is appended and the next batch, if any, is sent.
CallPollyOk(c) ==
    /\ calls[c].pc = "call_polly"
    /\ \E k \in calls[c].inflight :
         LET call == calls[c]
             audio_data == call_polly(c, call.batches[k], call.language_detected)
             merged_audio == call.merged_audio \o audio_data
         IN calls' = [calls EXCEPT ![c] =
              IF k < Len(call.batches)
              THEN [@ EXCEPT !.merged_audio = merged_audio,
                             !.inflight = {k + 1},
                             !.sent = Append(@, k + 1)]
              ELSE [@ EXCEPT !.merged_audio = merged_audio,
                             !.inflight = {},
                             !.pc = "track_usage"]]
    /\ UNCHANGED <<now, usage_tracking, cache_enabled, cache, usage_at_start, authVars, feedVars>>

\* synthesize_batches sending a failed batch once more.
CallPollyErr_Retry(c) ==
    /\ calls[c].pc = "call_polly"
    /\ \E k \in calls[c].inflight :
         calls' = [calls EXCEPT ![c] =
              IF calls[c].failed_batch = 0
              THEN [@ EXCEPT !.failed_batch = k, !.sent = Append(@, k)]
              ELSE [Finish(@, "Dependency") EXCEPT !.failed_batch = k]]
    /\ UNCHANGED <<now, usage_tracking, cache_enabled, cache, usage_at_start, authVars, feedVars>>

\* synthesize_batches swallowing the provider's error: the loop ends and the
\* call goes on to track_usage.
CallPollyErr_Swallow(c) ==
    /\ calls[c].pc = "call_polly"
    /\ \E k \in calls[c].inflight :
         calls' = [calls EXCEPT ![c] =
              [@ EXCEPT !.failed_batch = k, !.inflight = {}, !.pc = "track_usage"]]
    /\ UNCHANGED <<now, usage_tracking, cache_enabled, cache, usage_at_start, authVars, feedVars>>

\* synthesize_batches: the provider call of the batch in flight fails; `?`
\* returns the error and drops the audio merged so far.
CallPollyErr(c) ==
    /\ calls[c].pc = "call_polly"
    /\ \E k \in calls[c].inflight :
         calls' = [calls EXCEPT ![c] =
              [Finish(@, "Dependency") EXCEPT !.failed_batch = k]]
    /\ UNCHANGED <<now, usage_tracking, cache_enabled, cache, usage_at_start, authVars, feedVars>>

\* track_usage charging the length of the raw text instead of the cleaned one.
TrackUsage_RawLength(c, db_ok) ==
    /\ calls[c].pc = "track_usage"
    /\ LET call == calls[c]
           result == [audio_data |-> call.merged_audio,
                      language_detected |-> call.language_detected,
                      char_count |-> call.char_count]
       IN IF db_ok
          THEN /\ usage_tracking' =
                     increment_usage(usage_tracking, call.user_id, StrLen(call.text), now)
               /\ cache' = cache_insert(call.link, result)
               /\ calls' = [calls EXCEPT ![c] =
                     [Finish(@, "Ok") EXCEPT !.increments = @ + 1,
                                             !.tracked_at = now,
                                             !.audio_data = call.merged_audio]]
          ELSE /\ calls' = [calls EXCEPT ![c] = Finish(@, "Dependency")]
               /\ UNCHANGED <<usage_tracking, cache>>
    /\ UNCHANGED <<now, cache_enabled, usage_at_start, authVars, feedVars>>

\* track_usage as a read-modify-write: the orchestrator writes back the usage
\* the guard read plus the request.
TrackUsage_ReadModifyWrite(c, db_ok) ==
    /\ calls[c].pc = "track_usage"
    /\ LET call == calls[c]
           result == [audio_data |-> call.merged_audio,
                      language_detected |-> call.language_detected,
                      char_count |-> call.char_count]
           usage == get_today_usage(call.user_id)
           current == IF usage = <<>> THEN 0 ELSE usage[1].characters_used
       IN IF db_ok
          THEN /\ usage_tracking' =
                     increment_usage(usage_tracking, call.user_id,
                                     call.used_seen + call.char_count - current, now)
               /\ cache' = cache_insert(call.link, result)
               /\ calls' = [calls EXCEPT ![c] =
                     [Finish(@, "Ok") EXCEPT !.increments = @ + 1,
                                             !.tracked_at = now,
                                             !.audio_data = call.merged_audio]]
          ELSE /\ calls' = [calls EXCEPT ![c] = Finish(@, "Dependency")]
               /\ UNCHANGED <<usage_tracking, cache>>
    /\ UNCHANGED <<now, cache_enabled, usage_at_start, authVars, feedVars>>

\* track_usage, then the result is built, stored in the cache and returned.
TrackUsage(c, db_ok) ==
    /\ calls[c].pc = "track_usage"
    /\ LET call == calls[c]
           result == [audio_data |-> call.merged_audio,
                      language_detected |-> call.language_detected,
                      char_count |-> call.char_count]
       IN IF db_ok
          THEN /\ usage_tracking' =
                     increment_usage(usage_tracking, call.user_id, call.char_count, now)
               /\ cache' = cache_insert(call.link, result)
               /\ calls' = [calls EXCEPT ![c] =
                     [Finish(@, "Ok") EXCEPT !.increments = @ + 1,
                                             !.tracked_at = now,
                                             !.audio_data = call.merged_audio]]
          ELSE /\ calls' = [calls EXCEPT ![c] = Finish(@, "Dependency")]
               /\ UNCHANGED <<usage_tracking, cache>>
    /\ UNCHANGED <<now, cache_enabled, usage_at_start, authVars, feedVars>>

\* The cache drops an entry (idle expiry or capacity eviction).
CacheEvict(link) ==
    /\ link \in DOMAIN cache
    /\ cache' = [l \in DOMAIN cache \ {link} |-> cache[l]]
    /\ UNCHANGED <<now, usage_tracking, cache_enabled, calls, usage_at_start, authVars, feedVars>>

\* Midnight passes.
NextDay ==
    /\ now < TRIAL_DAYS + MaxDays - 1
    /\ now' = now + 1
    /\ UNCHANGED <<usage_tracking, cache_enabled, cache, calls, usage_at_start, authVars, feedVars>>

\* The usage table some earlier day's work left: no row, or one row per user
\* at most MaxSlack characters under the user's daily limit.
InitialUsage(today, slack) ==
    IF slack < 0 THEN <<>>
    ELSE <<[user_id |-> "alice", date |-> today,
            characters_used |-> FREE_CHARACTER_LIMIT - slack,
            articles_synthesized |-> 1],
           [user_id |-> "bob", date |-> today,
            characters_used |-> PRO_CHARACTER_LIMIT - slack,
            articles_synthesized |-> 1]>>

\* The source_link values of the requests. The link is read by the cache
\* alone: with the cache disabled one link stands for all of them.
RequestLinks == IF cache_enabled THEN Links ELSE {"l1"}

Init ==
    /\ now \in {TRIAL_DAYS - 1, TRIAL_DAYS}
    /\ \E slack \in -1..MaxSlack : usage_tracking = InitialUsage(now, slack)
    /\ cache_enabled \in BOOLEAN
    /\ cache = <<>>
    /\ calls = [c \in Calls |-> IdleCall]
    /\ usage_at_start = usage_tracking
    /\ AuthIdle
    /\ FeedIdle

Next ==
    \/ \E c \in Calls, user_id \in UserIds, text \in Texts, link \in RequestLinks :
          Synthesize(c, user_id, text, link)
    \/ \E c \in Calls, db_ok \in BOOLEAN : FindUser(c, db_ok)
    \/ \E c \in Calls, db_ok \in BOOLEAN : GuardUsage(c, db_ok)
    \/ \E c \in Calls : CallPollyOk(c)
    \/ \E c \in Calls : CallPollyErr(c)
    \/ \E c \in Calls, db_ok \in BOOLEAN : TrackUsage(c, db_ok)
    \/ \E link \in Links : CacheEvict(link)
    \/ NextDay

Spec == Init /\ [][Next]_vars

\* ------------------------------------------------- split_into_batches alone
\* MAX_BATCH_SIZE of openai_tts_repository.rs:12 is 4096, larger than Polly's.
OpenAiBatchSize == MaxBatchSize + 1

\* The characters of the texts given to split_into_batches.
SplitAlphabet == {"a", "E", " ", "."}

SplitTexts == UNION {[1..k -> SplitAlphabet] : k \in 0..MaxTextLen}

\* One call, about to do the given work; nothing else in the system moves.
OneCall(call) ==
    /\ now = TRIAL_DAYS - 1
    /\ usage_tracking = <<>>
    /\ cache_enabled = FALSE
    /\ cache = <<>>
    /\ calls = [c \in Calls |-> IF c = 1 THEN call ELSE IdleCall]
    /\ usage_at_start = <<>>
    /\ AuthIdle
    /\ FeedIdle

SplitInit ==
    \E text \in SplitTexts :
        OneCall([IdleCall EXCEPT !.pc = "split",
                                 !.cleaned_text = text,
                                 !.char_count = StrLen(text)])

\* TtsService::split_into_batches and PollyTtsRepository::split_into_batches
\* (the same code, the same limit).
SplitPolly(c) ==
    /\ calls[c].pc = "split"
    /\ calls' = [calls EXCEPT ![c] =
            [@ EXCEPT !.pc = "polly_batches",
                      !.batches = split_into_batches(calls[c].cleaned_text, MaxBatchSize)]]
    /\ UNCHANGED <<now, usage_tracking, cache_enabled, cache, usage_at_start, authVars, feedVars>>

\* OpenAiTtsRepository::split_into_batches
SplitOpenAi(c) ==
    /\ calls[c].pc = "split"
    /\ calls' = [calls EXCEPT ![c] =
            [@ EXCEPT !.pc = "openai_batches",
                      !.batches = split_into_batches(calls[c].cleaned_text, OpenAiBatchSize)]]
    /\ UNCHANGED <<now, usage_tracking, cache_enabled, cache, usage_at_start, authVars, feedVars>>

SplitNext ==
    \/ \E c \in Calls : SplitPolly(c)
    \/ \E c \in Calls : SplitOpenAi(c)

SplitSpec == SplitInit /\ [][SplitNext]_vars

\* --------------------------------------------------------- clean_text alone
RawAlphabet == {"a", " ", ".", "<b>", "H", "&lt;b&gt;"}

RawTexts == UNION {[1..k -> RawAlphabet] : k \in 0..MaxRawLen}

CleanInit ==
    \E text \in RawTexts : OneCall([IdleCall EXCEPT !.pc = "clean", !.text = text])

\* TtsService::clean_text, step 1 of synthesize.
CleanText(c) ==
    /\ calls[c].pc = "clean"
    /\ LET cleaned_text == clean_text(calls[c].text)
       IN calls' = [calls EXCEPT ![c] =
            [@ EXCEPT !.pc = "cleaned",
                      !.cleaned_text = cleaned_text,
                      !.char_count = StrLen(cleaned_text)]]
    /\ UNCHANGED <<now, usage_tracking, cache_enabled, cache, usage_at_start, authVars, feedVars>>

CleanNext == \E c \in Calls : CleanText(c)

CleanSpec == CleanInit /\ [][CleanNext]_vars

\* -------------------------------------------------- language detection alone
\* language::detect_language (language.rs), exported by the tts module: the
\* classifier's language, Spanish on no match.
language_detect_language(text) ==
    LET language == detect_language_of(text)
    IN IF language = None THEN "Spanish" ELSE language

\* The cleaned texts given to detection.
DetectTexts == {clean_text(text) : text \in RawTexts}

DetectInit ==
    /\ now = TRIAL_DAYS - 1
    /\ usage_tracking = <<>>
    /\ cache_enabled = FALSE
    /\ cache = <<>>
    /\ \E t \in [Calls -> DetectTexts] :
          calls = [c \in Calls |-> [IdleCall EXCEPT !.pc = "detect",
                                                    !.cleaned_text = t[c]]]
    /\ usage_at_start = <<>>
    /\ AuthIdle
    /\ FeedIdle

\* TtsService::detect_language, step 2 of synthesize.
DetectInService(c) ==
    /\ calls[c].pc = "detect"
    /\ calls' = [calls EXCEPT ![c] =
            [@ EXCEPT !.pc = "detected",
                      !.language_detected = detect_language(calls[c].cleaned_text)]]
    /\ UNCHANGED <<now, usage_tracking, cache_enabled, cache, usage_at_start, authVars, feedVars>>

\* language::detect_language
DetectInLanguage(c) ==
    /\ calls[c].pc = "detect"
    /\ calls' = [calls EXCEPT ![c] =
            [@ EXCEPT !.pc = "detected",
                      !.language_detected =
                          language_detect_language(calls[c].cleaned_text)]]
    /\ UNCHANGED <<now, usage_tracking, cache_enabled, cache, usage_at_start, authVars, feedVars>>

DetectNext ==
    \/ \E c \in Calls : DetectInService(c)
    \/ \E c \in Calls : DetectInLanguage(c)

DetectSpec == DetectInit /\ [][DetectNext]_vars

\* -------------------------------------------------------------- cancellation
\* The awaits of synthesize: find_user, get_today_usage, call_polly and
\* increment_usage.
SuspensionPoints == {"find_user", "guard_usage", "call_polly", "track_usage"}

\* A cancelled call that hands back the audio merged so far.
Cancel_PartialAudio(c, applied) ==
    /\ calls[c].pc \in SuspensionPoints
    /\ applied => calls[c].pc = "track_usage"
    /\ calls' = [calls EXCEPT ![c] =
            [Finish(@, "Cancelled") EXCEPT
                !.audio_data = calls[c].merged_audio,
                !.increments = IF applied THEN @ + 1 ELSE @,
                !.tracked_at = IF applied THEN now ELSE @]]
    /\ usage_tracking' =
          IF applied
          THEN increment_usage(usage_tracking, calls[c].user_id, calls[c].char_count, now)
          ELSE usage_tracking
    /\ UNCHANGED <<now, cache_enabled, cache, usage_at_start, authVars, feedVars>>

\* The caller drops the future of synthesize at an await: the call does
\* nothing more and returns nothing. At the await of increment_usage the
\* statement may already have reached the store, which then applies it.
Cancel(c, applied) ==
    /\ calls[c].pc \in SuspensionPoints
    /\ applied => calls[c].pc = "track_usage"
    /\ calls' = [calls EXCEPT ![c] =
            [Finish(@, "Cancelled") EXCEPT
                !.increments = IF applied THEN @ + 1 ELSE @,
                !.tracked_at = IF applied THEN now ELSE @]]
    /\ usage_tracking' =
          IF applied
          THEN increment_usage(usage_tracking, calls[c].user_id, calls[c].char_count, now)
          ELSE usage_tracking
    /\ UNCHANGED <<now, cache_enabled, cache, usage_at_start, authVars, feedVars>>

\* The pipeline alone (no cache), with callers that may cancel.
CancelInit == Init /\ ~cache_enabled

CancelNext ==
    \/ \E c \in Calls, user_id \in UserIds, text \in Texts, link \in RequestLinks :
          Synthesize(c, user_id, text, link)
    \/ \E c \in Calls, db_ok \in BOOLEAN : FindUser(c, db_ok)
    \/ \E c \in Calls, db_ok \in BOOLEAN : GuardUsage(c, db_ok)
    \/ \E c \in Calls : CallPollyOk(c)
    \/ \E c \in Calls : CallPollyErr(c)
    \/ \E c \in Calls, db_ok \in BOOLEAN : TrackUsage(c, db_ok)
    \/ \E c \in Calls, applied \in BOOLEAN : Cancel(c, applied)
    \/ NextDay

CancelSpec == CancelInit /\ [][CancelNext]_vars

\* ------------------------------------------- the daily-limit scenario
\* it_should_enforce_daily_usage_limits (tests/e2e/test_tts.rs:161-216): the
\* user has 29,900 characters and 20 articles on today's row.
UsedToday == 29900

ArticlesToday == 20

\* The sizes of the scenario's two requests.
SmallRequest == 50

LargeRequest == 200

Repeat(ch, n) == [i \in 1..n |-> ch]

\* A request of 50 one-byte letters, and one whose cleaned text counts 200
\* bytes: 66 tags written with character references, which clean_text renders
\* as three bytes each, and one two-byte letter.
SmallText == Repeat("a", SmallRequest)

LargeText == Repeat("&lt;b&gt;", 66) \o <<"E">>

ScenarioTexts == {SmallText, LargeText}

\* TestFixtures::add_tts_usage for each user of the scenario.
ScenarioUsage(today) ==
    <<[user_id |-> "alice", date |-> today,
       characters_used |-> UsedToday, articles_synthesized |-> ArticlesToday],
      [user_id |-> "bob", date |-> today,
       characters_used |-> UsedToday, articles_synthesized |-> ArticlesToday]>>

\* Both users inside the trial window, today's usage as the fixture wrote it.
ScenarioInit ==
    /\ now \in 0..(TRIAL_DAYS - 1)
    /\ usage_tracking = ScenarioUsage(now)
    /\ cache_enabled = FALSE
    /\ cache = <<>>
    /\ calls = [c \in Calls |-> IdleCall]
    /\ usage_at_start = usage_tracking
    /\ AuthIdle
    /\ FeedIdle

ScenarioNext ==
    \/ \E c \in Calls, user_id \in DOMAIN Users, text \in ScenarioTexts :
          Synthesize(c, user_id, text, "l1")
    \/ \E c \in Calls, db_ok \in BOOLEAN : FindUser(c, db_ok)
    \/ \E c \in Calls, db_ok \in BOOLEAN : GuardUsage(c, db_ok)
    \/ \E c \in Calls : CallPollyOk(c)
    \/ \E c \in Calls : CallPollyErr(c)
    \/ \E c \in Calls, db_ok \in BOOLEAN : TrackUsage(c, db_ok)

ScenarioSpec == ScenarioInit /\ [][ScenarioNext]_vars

\* ------------------------------------------------------------ AuthService
\* Concurrent AuthService calls (one task per request).
MaxAuthCalls == 2

AuthCalls == 1..MaxAuthCalls

\* Config::refresh_token_expiration_days (30 by default), scaled to the
\* model's clock of a few days.
refresh_token_expiration_days == 1

\* The first day of the model's clock.
Today == TRIAL_DAYS - 1

\* TestFixtures::create_refresh_token: two sessions of alice, the first one
\* expiring tomorrow, and one session of bob.
FixtureTokens ==
    [t1 |-> [user_id |-> "alice", expires_at |-> Today + 1, revoked |-> FALSE],
     t2 |-> [user_id |-> "alice", expires_at |-> Today + 2, revoked |-> FALSE],
     t3 |-> [user_id |-> "bob",   expires_at |-> Today + 2, revoked |-> FALSE]]

\* generate_refresh_token: Uuid::new_v4, a value no other call has drawn.
Uuids == <<"u1", "u2", "u3", "u4">>

generate_refresh_token(c) == Uuids[c]

\* Every token value of the model: the fixtures', the generated ones and one
\* that is never issued.
Tokens == DOMAIN FixtureTokens \cup {Uuids[i] : i \in DOMAIN Uuids} \cup {"unknown"}

\* The tokens a client can present: the stored ones and the one never issued
\* (a generated token is known to nobody before it is stored and returned).
PresentedTokens == DOMAIN refresh_tokens \cup {"unknown"}

\* RefreshTokenRepository::create.
create(table, user_id, token, expiration_days, today) ==
    (token :> [user_id |-> user_id,
               expires_at |-> today + expiration_days,
               revoked |-> FALSE]) @@ table

\* RefreshTokenRepository::find_valid: Option<(user_id, expires_at)>.
find_valid(table, token, today) ==
    IF /\ token \in DOMAIN table
       /\ ~table[token].revoked
       /\ table[token].expires_at > today
    THEN <<table[token]>>
    ELSE <<>>

\* RefreshTokenRepository::check_token_status: Option<(revoked, is_expired)>.
check_token_status(table, token, today) ==
    IF token \in DOMAIN table
    THEN <<[revoked |-> table[token].revoked,
            is_expired |-> table[token].expires_at <= today]>>
    ELSE <<>>

\* A revoke that changes no row.
revoke_nothing(table, token) == table

\* A revoke that ends every session of the token's user.
revoke_sessions(table, token) ==
    [t \in DOMAIN table |->
        IF token \in DOMAIN table /\ table[t].user_id = table[token].user_id
        THEN [table[t] EXCEPT !.revoked = TRUE]
        ELSE table[t]]

\* RefreshTokenRepository::revoke: UPDATE ... SET revoked = TRUE WHERE token = $1.
revoke(table, token) ==
    [t \in DOMAIN table |->
        IF t = token THEN [table[t] EXCEPT !.revoked = TRUE] ELSE table[t]]

\* A revoke_all_for_user without its WHERE user_id = $1.
revoke_all_users(table, user_id) ==
    [t \in DOMAIN table |-> [table[t] EXCEPT !.revoked = TRUE]]

\* RefreshTokenRepository::revoke_all_for_user.
revoke_all_for_user(table, user_id) ==
    [t \in DOMAIN table |->
        IF table[t].user_id = user_id /\ ~table[t].revoked
        THEN [table[t] EXCEPT !.revoked = TRUE]
        ELSE table[t]]

\* What the store would answer about a token: the status a call starts from.
TokenStatus(table, token, today) ==
    IF token \notin DOMAIN table THEN "absent"
    ELSE IF table[token].revoked THEN "revoked"
    ELSE IF table[token].expires_at <= today THEN "expired"
    ELSE "valid"

IdleAuthCall ==
    [pc |-> "idle", op |-> None, token |-> None, user_id |-> None,
     new_refresh_token |-> None, status_at_start |-> None,
     revoked_row |-> FALSE, result |-> None]

AuthFinish(call, result) == [call EXCEPT !.pc = "done", !.result = result]

\* refresh_token, up to its first await (check_token_status is sent).
RefreshToken(c, token) ==
    /\ auth_calls[c].pc = "idle"
    /\ token \in PresentedTokens
    /\ \A d \in AuthCalls : d < c => auth_calls[d].pc # "idle"
    /\ auth_calls' = [auth_calls EXCEPT ![c] =
            [@ EXCEPT !.pc = "check_token_status",
                      !.op = "refresh_token",
                      !.token = token,
                      !.status_at_start = TokenStatus(refresh_tokens, token, now)]]
    /\ UNCHANGED <<ttsVars, refresh_tokens, feedVars>>

\* find_valid_refresh_token, first half: check_token_status has answered.
CheckTokenStatus(c, db_ok) ==
    /\ auth_calls[c].pc = "check_token_status"
    /\ LET status == check_token_status(refresh_tokens, auth_calls[c].token, now)
       IN auth_calls' = [auth_calls EXCEPT ![c] =
            IF ~db_ok THEN AuthFinish(@, "Dependency")
            ELSE IF status = <<>> THEN AuthFinish(@, "Invalid")
            ELSE IF status[1].revoked \/ status[1].is_expired
                 THEN AuthFinish(@, "Expired")
            ELSE [@ EXCEPT !.pc = "find_valid"]]
    /\ UNCHANGED <<ttsVars, refresh_tokens, feedVars>>

\* find_valid_refresh_token, second half: find_valid has answered.
FindValid(c, db_ok) ==
    /\ auth_calls[c].pc = "find_valid"
    /\ LET found == find_valid(refresh_tokens, auth_calls[c].token, now)
       IN auth_calls' = [auth_calls EXCEPT ![c] =
            IF ~db_ok THEN AuthFinish(@, "Dependency")
            ELSE IF found = <<>> THEN AuthFinish(@, "Invalid")
            ELSE [@ EXCEPT !.pc = "find_user", !.user_id = found[1].user_id]]
    /\ UNCHANGED <<ttsVars, refresh_tokens, feedVars>>

\* AuthService::find_user has answered; the access token and the new refresh
\* token are generated and revoke is sent.
AuthFindUser(c, db_ok) ==
    /\ auth_calls[c].pc = "find_user"
    /\ auth_calls' = [auth_calls EXCEPT ![c] =
            IF ~db_ok THEN AuthFinish(@, "Dependency")
            ELSE IF find_by_id(@.user_id) = <<>> THEN AuthFinish(@, "Unauthorized")
            ELSE [@ EXCEPT !.pc = "revoke",
                           !.new_refresh_token = generate_refresh_token(c)]]
    /\ UNCHANGED <<ttsVars, refresh_tokens, feedVars>>

\* refresh_token: revoke(refresh_token) has answered; on success
\* store_refresh_token is sent.
Revoke(c, db_ok) ==
    /\ auth_calls[c].pc = "revoke"
    /\ LET token == auth_calls[c].token
       IN IF db_ok
          THEN /\ refresh_tokens' = revoke(refresh_tokens, token)
               /\ auth_calls' = [auth_calls EXCEPT ![c] =
                    [@ EXCEPT !.pc = "store_refresh_token",
                              !.revoked_row = refresh_tokens' # refresh_tokens]]
          ELSE /\ auth_calls' = [auth_calls EXCEPT ![c] = AuthFinish(@, "Dependency")]
               /\ UNCHANGED refresh_tokens
    /\ UNCHANGED <<ttsVars, feedVars>>

\* store_refresh_token has answered and refresh_token returns.
StoreRefreshToken(c, db_ok) ==
    /\ auth_calls[c].pc = "store_refresh_token"
    /\ LET call == auth_calls[c]
       IN IF db_ok
          THEN /\ refresh_tokens' = create(refresh_tokens, call.user_id,
                                           call.new_refresh_token,
                                           refresh_token_expiration_days, now)
               /\ auth_calls' = [auth_calls EXCEPT ![c] = AuthFinish(@, "Ok")]
          ELSE /\ auth_calls' = [auth_calls EXCEPT ![c] = AuthFinish(@, "Dependency")]
               /\ UNCHANGED refresh_tokens
    /\ UNCHANGED <<ttsVars, feedVars>>

\* logout: one revoke.
Logout(c, token, db_ok) ==
    /\ auth_calls[c].pc = "idle"
    /\ token \in PresentedTokens
    /\ \A d \in AuthCalls : d < c => auth_calls[d].pc # "idle"
    /\ LET call == [auth_calls[c] EXCEPT
                        !.op = "logout", !.token = token,
                        !.status_at_start = TokenStatus(refresh_tokens, token, now)]
       IN IF db_ok
          THEN /\ refresh_tokens' = revoke(refresh_tokens, token)
               /\ auth_calls' = [auth_calls EXCEPT ![c] =
                    [AuthFinish(call, "Ok") EXCEPT
                        !.revoked_row = refresh_tokens' # refresh_tokens]]
          ELSE /\ auth_calls' = [auth_calls EXCEPT ![c] = AuthFinish(call, "Dependency")]
               /\ UNCHANGED refresh_tokens
    /\ UNCHANGED <<ttsVars, feedVars>>

\* logout_all: one revoke_all_for_user.
LogoutAll(c, user_id, db_ok) ==
    /\ auth_calls[c].pc = "idle"
    /\ \A d \in AuthCalls : d < c => auth_calls[d].pc # "idle"
    /\ LET call == [auth_calls[c] EXCEPT !.op = "logout_all", !.user_id = user_id]
       IN IF db_ok
          THEN /\ refresh_tokens' = revoke_all_for_user(refresh_tokens, user_id)
               /\ auth_calls' = [auth_calls EXCEPT ![c] =
                    [AuthFinish(call, "Ok") EXCEPT
                        !.revoked_row = refresh_tokens' # refresh_tokens]]
          ELSE /\ auth_calls' = [auth_calls EXCEPT ![c] = AuthFinish(call, "Dependency")]
               /\ UNCHANGED refresh_tokens
    /\ UNCHANGED <<ttsVars, feedVars>>

\* create_tokens_for_user (login): a new session is stored.
CreateTokensForUser(c, user_id, db_ok) ==
    /\ auth_calls[c].pc = "idle"
    /\ \A d \in AuthCalls : d < c => auth_calls[d].pc # "idle"
    /\ LET call == [auth_calls[c] EXCEPT
                        !.op = "create_tokens_for_user", !.user_id = user_id,
                        !.new_refresh_token = generate_refresh_token(c)]
       IN IF db_ok
          THEN /\ refresh_tokens' = create(refresh_tokens, user_id,
                                           call.new_refresh_token,
                                           refresh_token_expiration_days, now)
               /\ auth_calls' = [auth_calls EXCEPT ![c] = AuthFinish(call, "Ok")]
          ELSE /\ auth_calls' = [auth_calls EXCEPT ![c] = AuthFinish(call, "Dependency")]
               /\ UNCHANGED refresh_tokens
    /\ UNCHANGED <<ttsVars, feedVars>>

AuthInit ==
    /\ now = Today
    /\ usage_tracking = <<>>
    /\ cache_enabled = FALSE
    /\ cache = <<>>
    /\ calls = [c \in Calls |-> IdleCall]
    /\ usage_at_start = <<>>
    /\ refresh_tokens = FixtureTokens
    /\ auth_calls = [c \in AuthCalls |-> IdleAuthCall]
    /\ FeedIdle

AuthNext ==
    \/ \E c \in AuthCalls, token \in Tokens : RefreshToken(c, token)
    \/ \E c \in AuthCalls, db_ok \in BOOLEAN : CheckTokenStatus(c, db_ok)
    \/ \E c \in AuthCalls, db_ok \in BOOLEAN : FindValid(c, db_ok)
    \/ \E c \in AuthCalls, db_ok \in BOOLEAN : AuthFindUser(c, db_ok)
    \/ \E c \in AuthCalls, db_ok \in BOOLEAN : Revoke(c, db_ok)
    \/ \E c \in AuthCalls, db_ok \in BOOLEAN : StoreRefreshToken(c, db_ok)
    \/ \E c \in AuthCalls, token \in Tokens, db_ok \in BOOLEAN :
          Logout(c, token, db_ok)
    \/ \E c \in AuthCalls, user_id \in DOMAIN Users, db_ok \in BOOLEAN :
          LogoutAll(c, user_id, db_ok)
    \/ \E c \in AuthCalls, user_id \in DOMAIN Users, db_ok \in BOOLEAN :
          CreateTokensForUser(c, user_id, db_ok)
    \/ NextDay

AuthSpec == AuthInit /\ [][AuthNext]_vars

\* ------------------------------------------------------------- FeedService
MAX_FEEDS_FREE == 3

MAX_FEEDS_PRO == 999

\* Feed::last_read_at = None (Option<DateTime<Utc>>), as a day before all days.
NeverRead == -1

\* Concurrent FeedService calls (one task per request), numbered in order of
\* arrival.
FeedCalls == 1..2

\* Feed ids are chosen by the client (CreateFeedRequest::id).
FeedIds == {"f1", "f2", "f3", "f4"}

Urls == {"http://a", "http://c", "http://d", "ftp://e"}

\* TestFixtures::create_feeds: alice, a free-tier user, has two feeds.
FixtureFeeds ==
    [f1 |-> [user_id |-> "alice", url |-> "http://a", title |-> "t", last_read_at |-> NeverRead],
     f2 |-> [user_id |-> "alice", url |-> "http://b", title |-> "t", last_read_at |-> NeverRead]]

\* FeedService::validate_url.
validate_url(url) == url \in {"http://a", "http://b", "http://c", "http://d"}

\* FeedRepository::find_by_id: Option<Feed>.
feed_find_by_id(table, feed_id) ==
    IF feed_id \in DOMAIN table THEN <<table[feed_id]>> ELSE <<>>

\* FeedRepository::exists_for_user.
exists_for_user(table, user_id, url) ==
    \E f \in DOMAIN table : table[f].user_id = user_id /\ table[f].url = url

\* FeedRepository::count_by_user.
count_by_user(table, user_id) ==
    Cardinality({f \in DOMAIN table : table[f].user_id = user_id})

\* The INSERT of FeedRepository::create is refused by a unique violation: the
\* id is the primary key, and a user has a URL once.
unique_violation(table, id, user_id, url) ==
    id \in DOMAIN table \/ exists_for_user(table, user_id, url)

\* FeedRepository::create.
feed_create(table, id, user_id, url, title) ==
    (id :> [user_id |-> user_id, url |-> url, title |-> title,
            last_read_at |-> NeverRead]) @@ table

\* FeedRepository::update_title: UPDATE feeds SET title WHERE id = $1.
update_title(table, feed_id, title) ==
    [f \in DOMAIN table |->
        IF f = feed_id THEN [table[f] EXCEPT !.title = title] ELSE table[f]]

\* FeedRepository::update_last_read_at: UPDATE feeds SET last_read_at WHERE id = $1.
update_last_read_at(table, feed_id, last_read_at) ==
    [f \in DOMAIN table |->
        IF f = feed_id THEN [table[f] EXCEPT !.last_read_at = last_read_at]
        ELSE table[f]]

\* FeedRepository::delete: DELETE FROM feeds WHERE id = $1.
feed_delete(table, feed_id) ==
    [f \in DOMAIN table \ {feed_id} |-> table[f]]

\* FeedService::check_feed_limit: the limit of the tier.
max_feeds(user) ==
    IF user.subscription_tier = "Free" THEN MAX_FEEDS_FREE ELSE MAX_FEEDS_PRO

IdleFeedCall ==
    [pc |-> "idle", op |-> None, user_id |-> None, feed_id |-> None,
     url |-> None, title |-> None, last_read_at |-> NeverRead,
     count_seen |-> -1, owner_seen |-> None, result |-> None]

FeedFinish(call, result) == [call EXCEPT !.pc = "done", !.result = result]

\* create_feed, up to its first await (find_user is sent).
CreateFeed(c, user_id, id, url) ==
    /\ feed_calls[c].pc = "idle"
    /\ \A d \in DOMAIN feed_calls : d < c => feed_calls[d].pc # "idle"
    /\ feed_calls' = [feed_calls EXCEPT ![c] =
            [@ EXCEPT !.pc = "find_user", !.op = "create_feed",
                      !.user_id = user_id, !.feed_id = id,
                      !.url = url, !.title = "t"]]
    /\ UNCHANGED <<ttsVars, authVars, feeds>>

\* create_feed: find_user has answered, the URL is validated and
\* exists_for_user is sent.
FeedFindUser(c, db_ok) ==
    /\ feed_calls[c].pc = "find_user"
    /\ feed_calls' = [feed_calls EXCEPT ![c] =
            IF ~db_ok THEN FeedFinish(@, "Dependency")
            ELSE IF find_by_id(@.user_id) = <<>> THEN FeedFinish(@, "Invalid")
            ELSE IF ~validate_url(@.url) THEN FeedFinish(@, "Invalid")
            ELSE [@ EXCEPT !.pc = "exists_for_user"]]
    /\ UNCHANGED <<ttsVars, authVars, feeds>>

\* create_feed: exists_for_user has answered; count_by_user is sent.
ExistsForUser(c, db_ok) ==
    /\ feed_calls[c].pc = "exists_for_user"
    /\ feed_calls' = [feed_calls EXCEPT ![c] =
            IF ~db_ok THEN FeedFinish(@, "Dependency")
            ELSE IF exists_for_user(feeds, @.user_id, @.url)
                 THEN FeedFinish(@, "Conflict")
            ELSE [@ EXCEPT !.pc = "check_feed_limit"]]
    /\ UNCHANGED <<ttsVars, authVars, feeds>>

\* check_feed_limit: count_by_user has answered; the INSERT is sent.
CheckFeedLimit(c, db_ok) ==
    /\ feed_calls[c].pc = "check_feed_limit"
    /\ LET feed_count == count_by_user(feeds, feed_calls[c].user_id)
           user == find_by_id(feed_calls[c].user_id)[1]
       IN feed_calls' = [feed_calls EXCEPT ![c] =
            IF ~db_ok THEN FeedFinish(@, "Dependency")
            ELSE IF feed_count >= max_feeds(user)
                 THEN [FeedFinish(@, "PaymentRequired") EXCEPT !.count_seen = feed_count]
            ELSE [@ EXCEPT !.pc = "create", !.count_seen = feed_count]]
    /\ UNCHANGED <<ttsVars, authVars, feeds>>

\* create_feed: FeedRepository::create has answered and create_feed returns.
FeedCreate(c, db_ok) ==
    /\ feed_calls[c].pc = "create"
    /\ LET call == feed_calls[c]
       IN IF db_ok /\ ~unique_violation(feeds, call.feed_id, call.user_id, call.url)
          THEN /\ feeds' = feed_create(feeds, call.feed_id, call.user_id,
                                       call.url, call.title)
               /\ feed_calls' = [feed_calls EXCEPT ![c] = FeedFinish(@, "Ok")]
          ELSE /\ feed_calls' = [feed_calls EXCEPT ![c] = FeedFinish(@, "Dependency")]
               /\ UNCHANGED feeds
    /\ UNCHANGED <<ttsVars, authVars>>

\* update_feed, up to its first await (find_by_id is sent).
UpdateFeed(c, user_id, feed_id) ==
    /\ feed_calls[c].pc = "idle"
    /\ \A d \in DOMAIN feed_calls : d < c => feed_calls[d].pc # "idle"
    /\ feed_calls' = [feed_calls EXCEPT ![c] =
            [@ EXCEPT !.pc = "verify_feed_ownership", !.op = "update_feed",
                      !.user_id = user_id, !.feed_id = feed_id, !.title = "s"]]
    /\ UNCHANGED <<ttsVars, authVars, feeds>>

\* delete_feed, up to its first await.
DeleteFeed(c, user_id, feed_id) ==
    /\ feed_calls[c].pc = "idle"
    /\ \A d \in DOMAIN feed_calls : d < c => feed_calls[d].pc # "idle"
    /\ feed_calls' = [feed_calls EXCEPT ![c] =
            [@ EXCEPT !.pc = "verify_feed_ownership", !.op = "delete_feed",
                      !.user_id = user_id, !.feed_id = feed_id]]
    /\ UNCHANGED <<ttsVars, authVars, feeds>>

\* update_last_read_at, up to its first await.
UpdateLastReadAt(c, user_id, feed_id, last_read_at) ==
    /\ feed_calls[c].pc = "idle"
    /\ \A d \in DOMAIN feed_calls : d < c => feed_calls[d].pc # "idle"
    /\ feed_calls' = [feed_calls EXCEPT ![c] =
            [@ EXCEPT !.pc = "verify_feed_ownership", !.op = "update_last_read_at",
                      !.user_id = user_id, !.feed_id = feed_id,
                      !.last_read_at = last_read_at]]
    /\ UNCHANGED <<ttsVars, authVars, feeds>>

\* verify_feed_ownership: find_by_id has answered; update_last_read_at then
\* tests the date; the write is sent.
VerifyFeedOwnership(c, db_ok) ==
    /\ feed_calls[c].pc = "verify_feed_ownership"
    /\ LET call == feed_calls[c]
           feed == feed_find_by_id(feeds, call.feed_id)
       IN feed_calls' = [feed_calls EXCEPT ![c] =
            IF ~db_ok THEN FeedFinish(@, "Dependency")
            ELSE IF feed = <<>> THEN FeedFinish(@, "NotFound")
            ELSE IF feed[1].user_id # call.user_id
                 THEN [FeedFinish(@, "NotFound") EXCEPT !.owner_seen = feed[1].user_id]
            ELSE IF call.op = "update_last_read_at" /\ call.last_read_at > now
                 THEN [FeedFinish(@, "Invalid") EXCEPT !.owner_seen = feed[1].user_id]
            ELSE [@ EXCEPT !.pc = "write", !.owner_seen = feed[1].user_id]]
    /\ UNCHANGED <<ttsVars, authVars, feeds>>

\* The write of update_feed, delete_feed or update_last_read_at has answered
\* and the call returns.
FeedWrite(c, db_ok) ==
    /\ feed_calls[c].pc = "write"
    /\ LET call == feed_calls[c]
       IN IF db_ok
          THEN /\ feeds' =
                    CASE call.op = "update_feed" ->
                            update_title(feeds, call.feed_id, call.title)
                      [] call.op = "delete_feed" ->
                            feed_delete(feeds, call.feed_id)
                      [] call.op = "update_last_read_at" ->
                            update_last_read_at(feeds, call.feed_id, call.last_read_at)
               /\ feed_calls' = [feed_calls EXCEPT ![c] = FeedFinish(@, "Ok")]
          ELSE /\ feed_calls' = [feed_calls EXCEPT ![c] = FeedFinish(@, "Dependency")]
               /\ UNCHANGED feeds
    /\ UNCHANGED <<ttsVars, authVars>>

\* The fixture's feeds, and the given number of calls not yet made.
FeedInitWith(n) ==
    /\ now = Today
    /\ usage_tracking = <<>>
    /\ cache_enabled = FALSE
    /\ cache = <<>>
    /\ calls = [c \in Calls |-> IdleCall]
    /\ usage_at_start = <<>>
    /\ AuthIdle
    /\ feeds = FixtureFeeds
    /\ feed_calls = [c \in 1..n |-> IdleFeedCall]

FeedInit == FeedInitWith(2)

FeedNext ==
    \/ \E c \in FeedCalls, user_id \in UserIds, id \in FeedIds, url \in Urls :
          CreateFeed(c, user_id, id, url)
    \/ \E c \in FeedCalls, db_ok \in BOOLEAN : FeedFindUser(c, db_ok)
    \/ \E c \in FeedCalls, db_ok \in BOOLEAN : ExistsForUser(c, db_ok)
    \/ \E c \in FeedCalls, db_ok \in BOOLEAN : CheckFeedLimit(c, db_ok)
    \/ \E c \in FeedCalls, db_ok \in BOOLEAN : FeedCreate(c, db_ok)
    \/ \E c \in FeedCalls, user_id \in UserIds, feed_id \in FeedIds :
          UpdateFeed(c, user_id, feed_id)
    \/ \E c \in FeedCalls, user_id \in UserIds, feed_id \in FeedIds :
          DeleteFeed(c, user_id, feed_id)
    \/ \E c \in FeedCalls, user_id \in UserIds, feed_id \in FeedIds,
          last_read_at \in {Today, Today + 1} :
          UpdateLastReadAt(c, user_id, feed_id, last_read_at)
    \/ \E c \in FeedCalls, db_ok \in BOOLEAN : VerifyFeedOwnership(c, db_ok)
    \/ \E c \in FeedCalls, db_ok \in BOOLEAN : FeedWrite(c, db_ok)

FeedSpec == FeedInit /\ [][FeedNext]_vars

\* Three concurrent calls that name the same feed id, "f1": its owner's, and
\* another user's.
OneFeedCalls == 1..3

OneFeedInit == FeedInitWith(3)

OneFeedNext ==
    \/ \E c \in OneFeedCalls, user_id \in DOMAIN Users :
          CreateFeed(c, user_id, "f1", "http://c")
    \/ \E c \in OneFeedCalls, db_ok \in BOOLEAN : FeedFindUser(c, db_ok)
    \/ \E c \in OneFeedCalls, db_ok \in BOOLEAN : ExistsForUser(c, db_ok)
    \/ \E c \in OneFeedCalls, db_ok \in BOOLEAN : CheckFeedLimit(c, db_ok)
    \/ \E c \in OneFeedCalls, db_ok \in BOOLEAN : FeedCreate(c, db_ok)
    \/ \E c \in OneFeedCalls, user_id \in DOMAIN Users : UpdateFeed(c, user_id, "f1")
    \/ \E c \in OneFeedCalls, user_id \in DOMAIN Users : DeleteFeed(c, user_id, "f1")
    \/ \E c \in OneFeedCalls, user_id \in DOMAIN Users,
          last_read_at \in {Today, Today + 1} :
          UpdateLastReadAt(c, user_id, "f1", last_read_at)
    \/ \E c \in OneFeedCalls, db_ok \in BOOLEAN : VerifyFeedOwnership(c, db_ok)
    \/ \E c \in OneFeedCalls, db_ok \in BOOLEAN : FeedWrite(c, db_ok)

OneFeedSpec == OneFeedInit /\ [][OneFeedNext]_vars

\* --------------------------------------------------------- voice selection
\* PollyTtsRepository::get_voice_for_language.
polly_get_voice_for_language(language) ==
    CASE language = "English" -> "Joanna"
      [] language = "Spanish" -> "Lupe"
      [] language = "French" -> "Lea"
      [] language = "German" -> "Vicki"
      [] language = "Italian" -> "Bianca"
      [] language = "Portuguese" -> "Ines"

\* OpenAiTtsRepository::get_voice_for_language.
openai_get_voice_for_language(language) ==
    CASE language = "English" -> "alloy"
      [] language = "Spanish" -> "echo"
      [] language = "French" -> "nova"
      [] language = "German" -> "onyx"
      [] language = "Italian" -> "fable"
      [] language = "Portuguese" -> "shimmer"

\* OpenAiTtsRepository::default_voice, from Config::openai_tts_voice: empty,
\* "alloy" (the value when OPENAI_TTS_VOICE is not set), another voice, or a
\* name that is not a voice.
DefaultVoices == {"", "alloy", "nova", "custom"}

\* OpenAiTtsRepository::synthesize: the voice of the request.
openai_select_voice(default_voice, language) ==
    IF default_voice = "" THEN openai_get_voice_for_language(language)
    ELSE default_voice

\* OpenAiTtsRepository::call_openai: the voice string parsed to the Voice enum.
openai_voice_enum(voice) ==
    IF voice \in {"alloy", "echo", "fable", "onyx", "nova", "shimmer"}
    THEN voice
    ELSE "alloy"

\* synthesize_batches: one provider request per batch, in order, each with
\* the given voice.
synthesize_batches(batches, voice, provider) ==
    [i \in 1..Len(batches) |->
        [text |-> batches[i], voice |-> voice, provider |-> provider]]

\* Cleaned texts with a detected language, about to be synthesized.
VoiceInit ==
    /\ now = Today
    /\ usage_tracking = <<>>
    /\ cache_enabled = FALSE
    /\ cache = <<>>
    /\ \E t \in [Calls -> {clean_text(text) : text \in Texts}],
          l \in [Calls -> Languages] :
          calls = [c \in Calls |-> [IdleCall EXCEPT !.pc = "synthesize",
                                                    !.cleaned_text = t[c],
                                                    !.language_detected = l[c]]]
    /\ usage_at_start = <<>>
    /\ AuthIdle
    /\ FeedIdle

\* TtsService::call_polly for every batch (the table of the domain module).
SynthesizeInService(c) ==
    /\ calls[c].pc = "synthesize"
    /\ LET batches == split_into_batches(calls[c].cleaned_text, MaxBatchSize)
           voice == get_voice_for_language(calls[c].language_detected)
       IN calls' = [calls EXCEPT ![c] =
            [@ EXCEPT !.pc = "synthesized",
                      !.batches = batches,
                      !.merged_audio = synthesize_batches(batches, voice, "service")]]
    /\ UNCHANGED <<now, usage_tracking, cache_enabled, cache, usage_at_start, authVars, feedVars>>

\* PollyTtsRepository::synthesize.
SynthesizePolly(c) ==
    /\ calls[c].pc = "synthesize"
    /\ LET batches == split_into_batches(calls[c].cleaned_text, MaxBatchSize)
           voice == polly_get_voice_for_language(calls[c].language_detected)
       IN calls' = [calls EXCEPT ![c] =
            [@ EXCEPT !.pc = "synthesized",
                      !.batches = batches,
                      !.merged_audio = synthesize_batches(batches, voice, "polly")]]
    /\ UNCHANGED <<now, usage_tracking, cache_enabled, cache, usage_at_start, authVars, feedVars>>

\* OpenAiTtsRepository::synthesize, constructed with the given default voice.
SynthesizeOpenAi(c, default_voice) ==
    /\ calls[c].pc = "synthesize"
    /\ LET batches == split_into_batches(calls[c].cleaned_text, OpenAiBatchSize)
           voice == openai_select_voice(default_voice, calls[c].language_detected)
       IN calls' = [calls EXCEPT ![c] =
            [@ EXCEPT !.pc = "synthesized",
                      !.batches = batches,
                      !.merged_audio =
                          synthesize_batches(batches, openai_voice_enum(voice), "openai")]]
    /\ UNCHANGED <<now, usage_tracking, cache_enabled, cache, usage_at_start, authVars, feedVars>>

VoiceNext ==
    \/ \E c \in Calls : SynthesizeInService(c)
    \/ \E c \in Calls : SynthesizePolly(c)
    \/ \E c \in Calls, default_voice \in DefaultVoices : SynthesizeOpenAi(c, default_voice)

VoiceSpec == VoiceInit /\ [][VoiceNext]_vars

\* ------------------------------------------------------------------ claims
\* The characters and articles the table records for (user, date), over all
\* of its rows.
RECURSIVE SumField(_, _)
SumField(rows, field) ==
    IF rows = <<>> THEN 0 ELSE Head(rows)[field] + SumField(Tail(rows), field)

SumOn(table, user_id, date, field) ==
    LET rows == RowsOf(table, user_id, date)
    IN IF rows = <<>> THEN 0
       ELSE IF Len(rows) = 1 THEN rows[1][field]
       ELSE SumField(rows, field)

CharactersOn(table, user_id, date) == SumOn(table, user_id, date, "characters_used")

ArticlesOn(table, user_id, date) == SumOn(table, user_id, date, "articles_synthesized")

LimitOf(user_id) ==
    IF Users[user_id].subscription_tier = "Free" THEN 20000 ELSE 200000

\* The call's user is a free-tier user whose trial window had passed when the
\* call started.
ExpiredAtStart(c) ==
    /\ calls[c].user_id \in DOMAIN Users
    /\ Users[calls[c].user_id].subscription_tier = "Free"
    /\ calls[c].started_at - Users[calls[c].user_id].created_at >= 7

\* C1: in every step in which guard_usage decides for a user whose trial is not
\* expired, having read u characters used today for a request of c characters,
\* the call goes on to the provider exactly when u + c <= limit of the tier and
\* ends with PaymentRequired exactly when u + c > limit.
C1_GuardDecision ==
    [][\A c \in Calls :
         (/\ calls[c].pc = "guard_usage"
          /\ calls'[c].used_seen >= 0
          /\ ~(Users[calls[c].user_id].subscription_tier = "Free"
               /\ now - Users[calls[c].user_id].created_at >= 7))
         => LET u == CharactersOn(usage_tracking, calls[c].user_id, now)
                n == calls[c].char_count
                limit == LimitOf(calls[c].user_id)
            IN /\ calls'[c].used_seen = u
               /\ (calls'[c].pc = "call_polly") <=> (u + n <= limit)
               /\ (calls'[c].pc = "done" /\ calls'[c].result = "PaymentRequired")
                     <=> (u + n > limit)]_vars

\* C1 witness: a request that brings a free user exactly to the limit is let
\* through, and a request that goes over the limit is refused.
C1_Witness ==
    /\ \E c \in Calls :
         /\ calls[c].pc = "call_polly" /\ calls[c].user_id = "alice"
         /\ calls[c].char_count > 0
         /\ calls[c].used_seen + calls[c].char_count = 20000
    /\ \E c \in Calls :
         /\ calls[c].result = "PaymentRequired" /\ ~ExpiredAtStart(c)
         /\ calls[c].used_seen + calls[c].char_count > LimitOf(calls[c].user_id)

\* C2 (as stated): every finished call of a free-tier user whose trial window
\* had passed ended with PaymentRequired.
C2_AlwaysPaymentRequired ==
    \A c \in Calls :
        (calls[c].pc = "done" /\ ExpiredAtStart(c)) => calls[c].result = "PaymentRequired"

\* C2 (amended): a call of a free-tier user whose trial window had passed never
\* reaches the provider and never charges usage; unless it is answered from
\* the cache or a store lookup fails, it ends with PaymentRequired, whatever
\* the usage today and the size of the request.
C2_TrialExpired ==
    \A c \in Calls :
        ExpiredAtStart(c) =>
            /\ calls[c].pc \in {"find_user", "guard_usage", "done"}
            /\ calls[c].sent = <<>>
            /\ calls[c].increments = 0
            /\ (calls[c].pc = "done" /\ ~calls[c].cache_hit
                    /\ calls[c].result # "Dependency")
                  => calls[c].result = "PaymentRequired"

\* C2 witness: refused for the expired trial although the request fits the
\* quota that remains.
C2_Witness ==
    \E c \in Calls :
        /\ ExpiredAtStart(c)
        /\ calls[c].result = "PaymentRequired"
        /\ calls[c].char_count > 0
        /\ calls[c].used_seen + calls[c].char_count <= 20000

\* C3: a step that ends a call with Invalid or PaymentRequired leaves the usage
\* table and the cache as they are, and that call has made no provider call
\* and no usage increment; and every step of a call that counts no increment
\* leaves the usage table and the cache as they are.
C3_NoSideEffects ==
    [][\A c \in Calls :
         /\ (calls[c].pc # "done" /\ calls'[c].pc = "done"
               /\ calls'[c].result \in {"Invalid", "PaymentRequired"})
              => /\ usage_tracking' = usage_tracking
                 /\ cache' = cache
                 /\ calls'[c].sent = <<>>
                 /\ calls'[c].merged_audio = <<>>
                 /\ calls'[c].increments = 0
         /\ (calls'[c] # calls[c] /\ calls'[c].increments = calls[c].increments)
              => (usage_tracking' = usage_tracking /\ cache' = cache)]_vars

\* C3 witness: one call refused with PaymentRequired over a non-empty usage
\* table, another ended with Invalid.
C3_Witness ==
    /\ usage_tracking # <<>>
    /\ \E c, d \in Calls :
         /\ calls[c].result = "PaymentRequired" /\ ~ExpiredAtStart(c)
         /\ calls[d].result = "Invalid"

\* C4: the step in which a provider call fails ends the call with a Dependency
\* error and leaves the usage table as it is, the call has counted no
\* increment, and a call whose provider call failed never acts again.
C4_ProviderFailureNotCharged ==
    [][\A c \in Calls :
         /\ (calls[c].failed_batch = 0 /\ calls'[c].failed_batch > 0)
              => /\ calls'[c].pc = "done"
                 /\ calls'[c].result = "Dependency"
                 /\ calls'[c].increments = 0
                 /\ usage_tracking' = usage_tracking
         /\ calls[c].failed_batch > 0 => calls'[c] = calls[c]]_vars

\* C4 witness: the provider failed after the guard had passed with usage
\* already recorded for the day.
C4_Witness ==
    \E c \in Calls :
        /\ calls[c].failed_batch > 0
        /\ calls[c].result = "Dependency"
        /\ calls[c].used_seen > 0
        /\ CharactersOn(usage_tracking, calls[c].user_id, now) = calls[c].used_seen

\* The dates the clock can show.
Days == (TRIAL_DAYS - 1)..(TRIAL_DAYS + MaxDays - 1)

\* The call ran the whole pipeline and returned success.
Charged(c) == calls[c].result = "Ok" /\ ~calls[c].cache_hit

\* The call charged (user, date).
ChargedTo(c, user_id, date) ==
    Charged(c) /\ calls[c].user_id = user_id /\ calls[c].tracked_at = date

\* The characters and the articles the calls 1..n charged to (user, date).
RECURSIVE ChargedCharacters(_, _, _)
ChargedCharacters(n, user_id, date) ==
    IF n = 0 THEN 0
    ELSE (IF ChargedTo(n, user_id, date) THEN calls[n].char_count ELSE 0)
         + ChargedCharacters(n - 1, user_id, date)

RECURSIVE ChargedArticles(_, _, _)
ChargedArticles(n, user_id, date) ==
    IF n = 0 THEN 0
    ELSE (IF ChargedTo(n, user_id, date) THEN 1 ELSE 0)
         + ChargedArticles(n - 1, user_id, date)

NCalls == Cardinality(Calls)

\* C5: the step in which a call that ran the whole pipeline returns success
\* raises the characters_used of the user's row of the day by the returned
\* char_count, which is the length of the cleaned text and the value the guard
\* admitted, and articles_synthesized by 1, and changes no other user's or
\* day's usage; no other step of the call changes the usage table, and a
\* finished call never acts again.
C5_ChargedOnce ==
    [][\A c \in Calls :
         /\ (calls[c].pc # "done" /\ calls'[c].pc = "done"
               /\ calls'[c].result = "Ok" /\ ~calls'[c].cache_hit)
              => LET u == calls[c].user_id
                     n == calls'[c].char_count
                 IN /\ n = StrLen(clean_text(calls[c].text))
                    /\ calls[c].used_seen + n <= LimitOf(u)
                    /\ calls[c].increments = 0 /\ calls'[c].increments = 1
                    /\ CharactersOn(usage_tracking', u, now)
                         = CharactersOn(usage_tracking, u, now) + n
                    /\ ArticlesOn(usage_tracking', u, now)
                         = ArticlesOn(usage_tracking, u, now) + 1
                    /\ \A v \in DOMAIN Users, d \in Days :
                         <<v, d>> # <<u, now>> =>
                            /\ CharactersOn(usage_tracking', v, d)
                                 = CharactersOn(usage_tracking, v, d)
                            /\ ArticlesOn(usage_tracking', v, d)
                                 = ArticlesOn(usage_tracking, v, d)
         /\ (calls'[c] # calls[c]
               /\ ~(calls'[c].pc = "done" /\ calls'[c].result = "Ok"
                    /\ ~calls'[c].cache_hit))
              => usage_tracking' = usage_tracking
         /\ calls[c].pc = "done" => calls'[c] = calls[c]]_vars

\* C5 witness: a charged call whose cleaned text is shorter than its raw text.
C5_Witness ==
    \E c \in Calls :
        /\ Charged(c)
        /\ calls[c].char_count > 0
        /\ calls[c].char_count < StrLen(calls[c].text)
        /\ CharactersOn(usage_tracking, calls[c].user_id, calls[c].tracked_at)
             = calls[c].used_seen + calls[c].char_count

\* C6: in every state, for every user and day, the table holds at most one
\* row, and its characters_used and articles_synthesized are the initial ones
\* plus the char_counts, and the number, of the calls that charged that user
\* on that day, however the calls interleave.
C6_NoLostUpdates ==
    \A u \in DOMAIN Users, d \in Days :
        LET rows == RowsOf(usage_tracking, u, d)
            start == RowsOf(usage_at_start, u, d)
        IN /\ Len(rows) <= 1
           /\ SumField(rows, "characters_used")
                = SumField(start, "characters_used") + ChargedCharacters(NCalls, u, d)
           /\ SumField(rows, "articles_synthesized")
                = SumField(start, "articles_synthesized") + ChargedArticles(NCalls, u, d)

\* C6 witness: two calls of one user passed the guard on the same usage (so
\* neither had charged when the other read) and both charged on the same day.
C6_Witness ==
    \E c, d \in Calls :
        /\ c # d
        /\ Charged(c) /\ Charged(d)
        /\ calls[c].user_id = calls[d].user_id
        /\ calls[c].tracked_at = calls[d].tracked_at
        /\ calls[c].used_seen = calls[d].used_seen
        /\ calls[c].char_count > 0 /\ calls[d].char_count > 0

\* The batches each request text is split into.
BatchesOf == [t \in Texts |-> split_into_batches(clean_text(t), MaxBatchSize)]

\* C7: in every state of every call, at most one batch is in flight, the
\* batches were sent in the order 1, 2, ..., batch k+1 only after the audio of
\* batch k was merged, the merged audio is the audio of batches 1..k in that
\* order, and a successful call returns the audio of all its batches in order.
C7_BatchesInOrder ==
    \A c \in Calls :
        LET call == calls[c]
        IN /\ Cardinality(call.inflight) <= 1
           /\ \A i \in 1..Len(call.sent) : call.sent[i] = i
           /\ Len(call.sent) <= Len(call.batches)
           /\ Len(call.sent) <= Len(call.merged_audio) + 1
           /\ call.inflight \subseteq {Len(call.merged_audio) + 1}
           /\ \A i \in 1..Len(call.merged_audio) :
                /\ call.merged_audio[i].text = call.batches[i]
                /\ call.merged_audio[i].by = c
           /\ Charged(c) =>
                /\ call.audio_data = call.merged_audio
                /\ Len(call.audio_data) = Len(call.batches)
                /\ call.batches = BatchesOf[call.text]

\* C7 witness: a successful call of three batches.
C7_Witness ==
    \E c \in Calls :
        /\ Charged(c)
        /\ Len(calls[c].batches) >= 3
        /\ Len(calls[c].audio_data) = Len(calls[c].batches)

\* C8: a call whose provider call for batch k failed has made exactly the k
\* provider calls 1..k, has ended with a Dependency error and returns no audio.
C8_FailFast ==
    \A c \in Calls :
        calls[c].failed_batch > 0 =>
            /\ calls[c].sent = [i \in 1..calls[c].failed_batch |-> i]
            /\ calls[c].pc = "done"
            /\ calls[c].inflight = {}
            /\ calls[c].result = "Dependency"
            /\ calls[c].audio_data = <<>>

\* C8 witness: the second of three batches failed after the first had been
\* synthesized.
C8_Witness ==
    \E c \in Calls :
        /\ calls[c].failed_batch = 2
        /\ Len(calls[c].batches) = 3
        /\ Len(calls[c].merged_audio) = 1
        /\ calls[c].audio_data = <<>>

\* C9 (as stated): with caching enabled, two successful calls with the same
\* link return the same audio, the first charged and the second not.
C9_SameLinkChargedOnce ==
    cache_enabled =>
        \A c, d \in Calls :
            (c < d /\ calls[c].result = "Ok" /\ calls[d].result = "Ok"
               /\ calls[c].link = calls[d].link)
            => /\ calls[c].audio_data = calls[d].audio_data
               /\ calls[c].increments + calls[d].increments = 1
               /\ calls[d].sent = <<>>

\* C9 (amended): with caching enabled, a call that starts while the cache holds
\* an entry for its link returns at once the audio of an earlier charged call
\* for that link, cleans no text, calls no provider and leaves the usage table
\* as it is; a call that starts while the cache holds no entry for its link
\* goes on to the pipeline.
C9_CacheHit ==
    [][\A c \in Calls :
         (calls[c].pc = "idle" /\ calls'[c].pc # "idle") =>
            IF cache_enabled /\ calls'[c].link \in DOMAIN cache
            THEN /\ calls'[c].pc = "done" /\ calls'[c].result = "Ok"
                 /\ calls'[c].cache_hit
                 /\ calls'[c].cleaned_text = <<>> /\ calls'[c].sent = <<>>
                 /\ calls'[c].increments = 0
                 /\ usage_tracking' = usage_tracking
                 /\ \E d \in Calls \ {c} :
                       /\ calls[d].link = calls'[c].link
                       /\ calls[d].result = "Ok" /\ calls[d].increments = 1
                       /\ calls[d].audio_data = calls'[c].audio_data
                       /\ calls[d].char_count = calls'[c].char_count
                       /\ calls[d].language_detected = calls'[c].language_detected
            ELSE calls'[c].pc = "find_user" /\ ~calls'[c].cache_hit]_vars

\* C9 witness: a call answered from the cache with the three-batch audio of
\* the call that was charged for it.
C9_Witness ==
    \E c, d \in Calls :
        /\ calls[c].cache_hit /\ calls[c].result = "Ok"
        /\ Charged(d) /\ calls[d].link = calls[c].link
        /\ calls[c].audio_data = calls[d].audio_data
        /\ Len(calls[c].audio_data) >= 3
        /\ calls[c].increments = 0

\* C10: with the cache disabled the cache stays empty, every successful call
\* has run the pipeline (one provider call per batch) and charged once, and
\* each user's usage of a day is the initial usage plus the char_counts, and
\* the number, of the successful calls of that user on that day.
C10_CacheDisabled ==
    ~cache_enabled =>
        /\ DOMAIN cache = {}
        /\ \A c \in Calls :
             calls[c].result = "Ok" =>
                /\ ~calls[c].cache_hit
                /\ calls[c].increments = 1
                /\ Len(calls[c].batches) >= 1
                /\ Len(calls[c].sent) = Len(calls[c].batches)
        /\ \A u \in DOMAIN Users, d \in Days :
             LET ok == {c \in Calls : calls[c].result = "Ok" /\ calls[c].user_id = u
                                      /\ calls[c].tracked_at = d}
             IN /\ \A c \in ok : ChargedTo(c, u, d)
                /\ CharactersOn(usage_tracking, u, d)
                     = CharactersOn(usage_at_start, u, d) + ChargedCharacters(NCalls, u, d)
                /\ ArticlesOn(usage_tracking, u, d)
                     = ArticlesOn(usage_at_start, u, d) + Cardinality(ok)

\* C10 witness: with the cache disabled, the same user synthesized the same
\* link twice, the second call after the first was charged, and both charged.
C10_Witness ==
    /\ ~cache_enabled
    /\ \E c, d \in Calls :
         /\ c # d
         /\ calls[c].result = "Ok" /\ calls[d].result = "Ok"
         /\ calls[c].link = calls[d].link
         /\ calls[c].user_id = calls[d].user_id
         /\ calls[c].char_count > 0
         /\ calls[d].used_seen = calls[c].used_seen + calls[c].char_count
         /\ calls[c].increments = 1 /\ calls[d].increments = 1

\* C11: with caching enabled, the step in which a call starts while the cache
\* holds an entry for its link ends the call at once with exactly the stored
\* result (audio, language, char_count), whoever the caller and whatever the
\* text: the user store and the usage guard are not consulted, and the usage
\* table and the cache stay as they are.
C11_HitByLinkAlone ==
    [][\A c \in Calls :
         (/\ calls[c].pc = "idle" /\ calls'[c].pc # "idle"
          /\ cache_enabled /\ calls'[c].link \in DOMAIN cache)
         => LET entry == cache[calls'[c].link]
            IN /\ calls'[c].pc = "done" /\ calls'[c].result = "Ok"
               /\ calls'[c].audio_data = entry.audio_data
               /\ calls'[c].char_count = entry.char_count
               /\ calls'[c].language_detected = entry.language_detected
               /\ calls'[c].used_seen = -1
               /\ calls'[c].increments = 0
               /\ usage_tracking' = usage_tracking
               /\ cache' = cache]_vars

\* C11 witness: a caller with an expired trial is answered from the entry
\* another user's call stored for another text.
C11_Witness ==
    \E c, d \in Calls :
        /\ calls[c].cache_hit /\ calls[c].result = "Ok"
        /\ Charged(d) /\ calls[d].link = calls[c].link
        /\ calls[c].text # calls[d].text
        /\ calls[c].user_id # calls[d].user_id
        /\ ExpiredAtStart(c)
        /\ calls[c].audio_data = calls[d].audio_data
        /\ calls[c].audio_data # <<>>

\* The result a charged call stored and returned.
ResultOf(c) ==
    [audio_data |-> calls[c].audio_data,
     language_detected |-> calls[c].language_detected,
     char_count |-> calls[c].char_count]

\* C12: with caching enabled, a call in the pipeline can always take its next
\* step whatever the other calls are doing (no call waits for or is failed by
\* another); two calls for one link that both ran the pipeline both called the
\* provider for every batch and both charged; and the cache holds for each
\* link at most one entry, the result of a charged call for that link.
C12_ConcurrentMisses ==
    cache_enabled =>
        /\ \A c \in Calls :
             /\ calls[c].pc = "find_user"
                  => ENABLED (\E db_ok \in BOOLEAN : FindUser(c, db_ok))
             /\ calls[c].pc = "guard_usage"
                  => ENABLED (\E db_ok \in BOOLEAN : GuardUsage(c, db_ok))
             /\ calls[c].pc = "call_polly" => ENABLED CallPollyOk(c)
             /\ calls[c].pc = "track_usage"
                  => ENABLED (\E db_ok \in BOOLEAN : TrackUsage(c, db_ok))
        /\ \A c, d \in Calls :
             (c # d /\ Charged(c) /\ Charged(d) /\ calls[c].link = calls[d].link)
             => /\ calls[c].increments = 1 /\ calls[d].increments = 1
                /\ Len(calls[c].sent) = Len(calls[c].batches)
                /\ Len(calls[d].sent) = Len(calls[d].batches)
        /\ DOMAIN cache \subseteq Links
        /\ \A l \in DOMAIN cache :
             \E d \in Calls :
                 Charged(d) /\ calls[d].link = l /\ cache[l] = ResultOf(d)

\* C12 witness: two calls of one user for one link passed the guard on the
\* same usage (neither had finished when the other started), both were
\* charged, each returned its own audio, and the cache holds one of the two.
C12_Witness ==
    /\ cache_enabled
    /\ \E c, d \in Calls :
         /\ c # d
         /\ Charged(c) /\ Charged(d)
         /\ calls[c].link = calls[d].link
         /\ calls[c].user_id = calls[d].user_id
         /\ calls[c].tracked_at = calls[d].tracked_at
         /\ calls[c].used_seen = calls[d].used_seen
         /\ calls[c].char_count > 0 /\ calls[d].char_count > 0
         /\ calls[c].audio_data # calls[d].audio_data
         /\ calls[c].link \in DOMAIN cache
         /\ cache[calls[c].link] = ResultOf(c)

\* A text as clean_text leaves it: no leading, trailing or repeated whitespace.
IsNormalized(text) == text = Trim(CollapseWhitespace(text, 1))

\* The limit the call's text was split for.
MaxSizeOf(c) ==
    IF calls[c].pc = "polly_batches" THEN MaxBatchSize ELSE OpenAiBatchSize

\* The call has split a normalized text.
HasSplit(c) ==
    /\ calls[c].pc \in {"polly_batches", "openai_batches"}
    /\ IsNormalized(calls[c].cleaned_text)

\* C13 (as stated): every batch of a normalized text is at most max_size long,
\* for both provider limits.
C13_BatchesWithinMax ==
    \A c \in Calls :
        HasSplit(c) =>
            \A i \in 1..Len(calls[c].batches) :
                StrLen(calls[c].batches[i]) <= MaxSizeOf(c)

\* str::split_whitespace: the words of s from index i on, in order.
RECURSIVE Words(_, _)
Words(s, i) ==
    LET b == SkipWhile(s, i, Whitespace)
        e == SkipWhile(s, b, SplitAlphabet \ Whitespace)
    IN IF b > Len(s) THEN <<>> ELSE <<SubSeq(s, b, e - 1)>> \o Words(s, e)

\* batches.join(" ")
RECURSIVE JoinBatches(_)
JoinBatches(batches) ==
    IF batches = <<>> THEN <<>>
    ELSE IF Len(batches) = 1 THEN batches[1]
    ELSE batches[1] \o <<" ">> \o JoinBatches(Tail(batches))

\* C14 (as stated): the batches of a normalized text, joined with single
\* spaces and split on whitespace, give the words of the text, in order.
C14_WordsPreserved ==
    \A c \in Calls :
        HasSplit(c) =>
            Words(JoinBatches(calls[c].batches), 1) = Words(calls[c].cleaned_text, 1)

\* C15: a text of at most max_size bytes (normalized or not, the empty text
\* and a text of exactly max_size bytes included) is returned as one batch
\* equal to the text, for both provider limits.
C15_SmallTextOneBatch ==
    \A c \in Calls :
        (/\ calls[c].pc \in {"polly_batches", "openai_batches"}
         /\ StrLen(calls[c].cleaned_text) <= MaxSizeOf(c))
        => calls[c].batches = <<calls[c].cleaned_text>>

\* C15 witness: a text of exactly max_size bytes that holds a sentence
\* boundary came back as one batch.
C15_Witness ==
    \E c \in Calls :
        /\ calls[c].pc = "polly_batches"
        /\ StrLen(calls[c].cleaned_text) = MaxBatchSize
        /\ SentenceEnds(calls[c].cleaned_text, 1) # <<>>
        /\ calls[c].batches = <<calls[c].cleaned_text>>

\* The text has no sentence-ending punctuation.
PunctuationFree(text) == \A i \in 1..Len(text) : text[i] \notin Terminators

\* C16 (as stated): a normalized text longer than max_size gives at least two
\* batches, none of them empty; if it has no punctuation, the batches are the
\* text cut into consecutive pieces of max_size characters, the last one
\* possibly shorter.
C16_LongTextsSplit ==
    \A c \in Calls :
        (HasSplit(c) /\ StrLen(calls[c].cleaned_text) > MaxSizeOf(c))
        => LET batches == calls[c].batches
               n == Len(batches)
           IN /\ n >= 2
              /\ \A i \in 1..n : batches[i] # <<>>
              /\ PunctuationFree(calls[c].cleaned_text)
                   => /\ \A i \in 1..(n - 1) : Len(batches[i]) = MaxSizeOf(c)
                      /\ Len(batches[n]) <= MaxSizeOf(c)
                      /\ calls[c].cleaned_text
                           = [i \in 1..Len(calls[c].cleaned_text) |->
                                batches[((i - 1) \div MaxSizeOf(c)) + 1]
                                       [((i - 1) % MaxSizeOf(c)) + 1]]

\* C17 (as stated): a call whose raw text cleans to the empty text, unless it
\* is answered from the cache, ends at once with Invalid: no language is
\* detected, no provider call is made and no usage is written.
C17_EmptyRejected ==
    \A c \in Calls :
        (/\ calls[c].pc # "idle" /\ ~calls[c].cache_hit
         /\ clean_text(calls[c].text) = <<>>)
        => /\ calls[c].pc = "done" /\ calls[c].result = "Invalid"
           /\ calls[c].language_detected = None
           /\ calls[c].sent = <<>>
           /\ calls[c].increments = 0

\* C18 (as stated): cleaning a cleaned text changes nothing.
C18_CleanIdempotent ==
    \A c \in Calls :
        calls[c].pc = "cleaned"
        => clean_text(calls[c].cleaned_text) = calls[c].cleaned_text

\* C19 (as stated): every detection returns one of the six languages, and any
\* two detections for which the classifier has no match return the same
\* language, the default.
C19_OneDefault ==
    \A c, d \in Calls :
        (calls[c].pc = "detected" /\ calls[d].pc = "detected")
        => /\ calls[c].language_detected \in Languages
           /\ (/\ detect_language_of(calls[c].cleaned_text) = None
               /\ detect_language_of(calls[d].cleaned_text) = None)
              => calls[c].language_detected = calls[d].language_detected

\* C20: the step in which a call is cancelled returns no audio and leaves the
\* cache as it is; cancelled at the user lookup, the usage read or a provider
\* call, it leaves the usage table as it is and the call has incremented
\* nothing; cancelled at the usage increment, the table is either unchanged or
\* holds that one increment of char_count and one article; a cancelled call
\* never acts again; and in every step of a call that is not its increment
\* the usage table stays as it is.
C20_Cancellation ==
    [][\A c \in Calls :
         /\ (calls[c].pc # "done" /\ calls'[c].result = "Cancelled")
              => /\ calls'[c].pc = "done"
                 /\ calls'[c].audio_data = <<>>
                 /\ cache' = cache
                 /\ calls[c].pc # "track_usage"
                      => /\ usage_tracking' = usage_tracking
                         /\ calls'[c].increments = 0
                 /\ calls[c].pc = "track_usage"
                      => \/ /\ usage_tracking' = usage_tracking
                            /\ calls'[c].increments = 0
                         \/ /\ usage_tracking' =
                                  increment_usage(usage_tracking, calls[c].user_id,
                                                  calls[c].char_count, now)
                            /\ calls'[c].increments = 1
         /\ calls[c].result = "Cancelled" => calls'[c] = calls[c]
         /\ (calls'[c] # calls[c] /\ calls'[c].increments = calls[c].increments)
              => usage_tracking' = usage_tracking]_vars

\* C20 witness: a call cancelled during its second provider call, after the
\* audio of the first batch had been merged, returned no audio and charged
\* nothing.
C20_Witness ==
    \E c \in Calls :
        /\ calls[c].result = "Cancelled"
        /\ Len(calls[c].merged_audio) >= 1
        /\ Len(calls[c].sent) = 2
        /\ calls[c].audio_data = <<>>
        /\ calls[c].increments = 0
        /\ usage_tracking = usage_at_start

\* C21: a free-tier user inside the trial who has used 29,900 characters
\* today is allowed a 50-character request (the guard does not refuse it), is
\* refused a 200-character request with PaymentRequired, and the characters
\* used today are unchanged after the refusal.
C21_FreeLimitScenario ==
    \A c \in Calls :
        (/\ calls[c].pc = "done"
         /\ calls[c].user_id = "alice"
         /\ calls[c].used_seen = UsedToday)
        => /\ calls[c].char_count = SmallRequest
                => calls[c].result # "PaymentRequired"
           /\ calls[c].char_count = LargeRequest
                => /\ calls[c].result = "PaymentRequired"
                   /\ CharactersOn(usage_tracking, "alice", now) = UsedToday

\* The step of call c in which it returns.
Returns(c) == auth_calls[c].pc # "done" /\ auth_calls'[c].pc = "done"

\* C22: refresh-token rotation. A refresh that succeeds with token T leaves T
\* revoked and has stored a new token, different from T, unrevoked and
\* unexpired, for the user of T; a refresh that starts when its token is
\* already revoked (in particular after such a success) never succeeds; and
\* a refresh is refused as Expired or Invalid only if its token is not valid
\* at that moment, so a refresh with the new token is not refused.
C22_Rotation ==
    [][\A c \in AuthCalls :
          LET T == auth_calls[c].token
              N == auth_calls[c].new_refresh_token
          IN auth_calls[c].op = "refresh_token" /\ Returns(c)
             => /\ auth_calls'[c].result = "Ok"
                    => /\ auth_calls[c].status_at_start = "valid"
                       /\ refresh_tokens'[T].revoked
                       /\ N # T
                       /\ N \notin DOMAIN refresh_tokens
                       /\ TokenStatus(refresh_tokens', N, now) = "valid"
                       /\ refresh_tokens'[N].user_id = refresh_tokens[T].user_id
                /\ auth_calls'[c].result \in {"Expired", "Invalid"}
                    => TokenStatus(refresh_tokens, T, now) # "valid"]_vars

\* A refresh succeeded, and a later refresh with the token it issued
\* succeeded too.
C22_Witness ==
    \E c, d \in AuthCalls :
        /\ auth_calls[c].op = "refresh_token" /\ auth_calls[c].result = "Ok"
        /\ auth_calls[d].op = "refresh_token" /\ auth_calls[d].result = "Ok"
        /\ auth_calls[d].token = auth_calls[c].new_refresh_token

\* C23: logout(T) revokes only T. A logout that succeeds leaves T revoked and
\* every other row of the token table (of the same user and of other users)
\* as it was; a refresh with T that starts afterwards is refused as Expired
\* (or ends with a store error), and a refresh with a token that is still
\* valid is not refused.
C23_LogoutRevokesOnlyT ==
    [][\A c \in AuthCalls :
          LET T == auth_calls'[c].token
          IN /\ (Returns(c) /\ auth_calls'[c].op = "logout"
                            /\ auth_calls'[c].result = "Ok")
                 => /\ DOMAIN refresh_tokens' = DOMAIN refresh_tokens
                    /\ \A t \in DOMAIN refresh_tokens :
                          refresh_tokens'[t] =
                              IF t = T THEN [refresh_tokens[t] EXCEPT !.revoked = TRUE]
                              ELSE refresh_tokens[t]
             /\ (Returns(c) /\ auth_calls'[c].op = "refresh_token")
                 => /\ auth_calls[c].status_at_start = "revoked"
                        => auth_calls'[c].result \in {"Expired", "Dependency"}
                    /\ TokenStatus(refresh_tokens, T, now) = "valid"
                        => auth_calls'[c].result \notin {"Expired", "Invalid"}]_vars

\* A session was logged out, a refresh with its token was then refused, and
\* the user's other session and the other user's session are still valid.
C23_Witness ==
    \E c, d \in AuthCalls :
        /\ auth_calls[c].op = "logout" /\ auth_calls[c].result = "Ok"
        /\ auth_calls[c].token = "t1" /\ auth_calls[c].revoked_row
        /\ auth_calls[d].op = "refresh_token" /\ auth_calls[d].token = "t1"
        /\ auth_calls[d].status_at_start = "revoked"
        /\ auth_calls[d].result = "Expired"
        /\ TokenStatus(refresh_tokens, "t2", now) = "valid"
        /\ TokenStatus(refresh_tokens, "t3", now) = "valid"

\* C24: logout_all(user) revokes every refresh token of that user that exists
\* when it runs and changes no token of another user; a revoked token stays
\* revoked, and a refresh that starts with a revoked token does not succeed.
C24_LogoutAll ==
    [][/\ \A c \in AuthCalls :
            /\ (Returns(c) /\ auth_calls'[c].op = "logout_all"
                           /\ auth_calls'[c].result = "Ok")
                => /\ DOMAIN refresh_tokens' = DOMAIN refresh_tokens
                   /\ \A t \in DOMAIN refresh_tokens :
                         IF refresh_tokens[t].user_id = auth_calls'[c].user_id
                         THEN /\ refresh_tokens'[t].revoked
                              /\ TokenStatus(refresh_tokens', t, now) = "revoked"
                         ELSE refresh_tokens'[t] = refresh_tokens[t]
            /\ (Returns(c) /\ auth_calls'[c].op = "refresh_token"
                           /\ auth_calls'[c].result = "Ok")
                => auth_calls[c].status_at_start # "revoked"
       /\ \A t \in DOMAIN refresh_tokens :
            refresh_tokens[t].revoked
                => t \in DOMAIN refresh_tokens' /\ refresh_tokens'[t].revoked]_vars

\* alice logged out of all her sessions, a refresh with one of them was then
\* refused, and bob's session is still valid.
C24_Witness ==
    \E c, d \in AuthCalls :
        /\ auth_calls[c].op = "logout_all" /\ auth_calls[c].result = "Ok"
        /\ auth_calls[c].user_id = "alice" /\ auth_calls[c].revoked_row
        /\ auth_calls[d].op = "refresh_token" /\ auth_calls[d].token = "t2"
        /\ auth_calls[d].status_at_start = "revoked"
        /\ auth_calls[d].result = "Expired"
        /\ refresh_tokens["t1"].revoked /\ refresh_tokens["t2"].revoked
        /\ TokenStatus(refresh_tokens, "t3", now) = "valid"

\* The refresh calls that presented token T while it was valid.
RefreshesOf(T) ==
    {c \in AuthCalls : /\ auth_calls[c].op = "refresh_token"
                       /\ auth_calls[c].token = T
                       /\ auth_calls[c].status_at_start = "valid"}

\* Only refresh requests have been made, the store has answered each of its
\* queries, and T has not reached its expiry.
Undisturbed(T) ==
    /\ \A c \in AuthCalls : /\ auth_calls[c].op \in {"refresh_token", None}
                            /\ auth_calls[c].result # "Dependency"
    /\ T \in DOMAIN refresh_tokens
    /\ refresh_tokens[T].expires_at > now

\* C29: a refresh token is single-use under concurrency. Of the refresh
\* requests that present the same valid token, at most one succeeds, and,
\* once all of them have returned, at least one has succeeded.
C29_SingleUse ==
    \A T \in Tokens :
        LET ok == {c \in RefreshesOf(T) : auth_calls[c].result = "Ok"}
        IN /\ Cardinality(ok) <= 1
           /\ (/\ RefreshesOf(T) # {}
               /\ \A c \in RefreshesOf(T) : auth_calls[c].pc = "done"
               /\ Undisturbed(T))
              => ok # {}

\* C30: refresh_token is all-or-nothing on the token store. A refresh that
\* returns an error has not changed the token table: the presented token is
\* not revoked by a call that stores no replacement.
C30_AllOrNothing ==
    \A c \in AuthCalls :
        (/\ auth_calls[c].op = "refresh_token"
         /\ auth_calls[c].pc = "done"
         /\ auth_calls[c].result # "Ok")
        => ~auth_calls[c].revoked_row

\* C25: the free-tier feed limit. After any interleaving of create_feed and
\* delete_feed calls a free-tier user owns at most 3 feeds, and a create_feed
\* whose limit check finds 3 feeds fails with PaymentRequired.
C25_FeedLimit ==
    /\ \A u \in DOMAIN Users :
          Users[u].subscription_tier = "Free"
              => count_by_user(feeds, u) <= MAX_FEEDS_FREE
    /\ \A c \in DOMAIN feed_calls :
          (/\ feed_calls[c].op = "create_feed"
           /\ feed_calls[c].pc = "done"
           /\ feed_calls[c].user_id = "alice"
           /\ feed_calls[c].count_seen >= MAX_FEEDS_FREE)
          => feed_calls[c].result = "PaymentRequired"

\* C26: feed ownership. An update_feed, delete_feed or update_last_read_at
\* whose ownership check finds no feed, or a feed of another user, returns
\* NotFound (unless the store failed) and changes no feed; and a feed is
\* modified or deleted only by a call of the user who owns it.
C26_Ownership ==
    [][/\ \A c \in DOMAIN feed_calls :
            LET call == feed_calls[c]
                feed == feed_find_by_id(feeds, call.feed_id)
            IN (/\ call.pc = "verify_feed_ownership"
                /\ feed_calls'[c] # call
                /\ feed = <<>> \/ feed[1].user_id # call.user_id)
               => /\ feed_calls'[c].pc = "done"
                  /\ feed_calls'[c].result \in {"NotFound", "Dependency"}
                  /\ feeds' = feeds
       /\ \A f \in DOMAIN feeds :
            (f \notin DOMAIN feeds' \/ feeds'[f] # feeds[f])
            => \E c \in DOMAIN feed_calls :
                  /\ feed_calls[c].pc = "write"
                  /\ feed_calls'[c].pc = "done"
                  /\ feed_calls[c].feed_id = f
                  /\ feed_calls[c].user_id = feeds[f].user_id]_vars

\* C27: voice selection is a function of the language alone. Every batch is
\* synthesized with the voice that the provider's language-to-voice table
\* assigns to the detected language, and the Polly table of the domain module
\* agrees with the one of the Polly repository.
C27_VoiceByLanguage ==
    /\ \A l \in Languages :
          get_voice_for_language(l) = polly_get_voice_for_language(l)
    /\ \A c \in Calls :
          calls[c].pc = "synthesized"
          => /\ Len(calls[c].merged_audio) = Len(calls[c].batches)
             /\ \A i \in DOMAIN calls[c].merged_audio :
                   LET chunk == calls[c].merged_audio[i]
                       l == calls[c].language_detected
                   IN /\ chunk.text = calls[c].batches[i]
                      /\ chunk.voice =
                            IF chunk.provider = "openai"
                            THEN openai_get_voice_for_language(l)
                            ELSE polly_get_voice_for_language(l)

\* C28: the quota is never exceeded. With the cache disabled, for every user
\* and day whose usage started at or under the daily limit of the user's
\* tier, characters_used stays at or under that limit in every reachable
\* state, whatever the interleaving of the user's concurrent synthesize calls.
C28_QuotaNeverExceeded ==
    ~cache_enabled
    => \A u \in DOMAIN Users, d \in Days :
          CharactersOn(usage_at_start, u, d) <= LimitOf(u)
          => CharactersOn(usage_tracking, u, d) <= LimitOf(u)

====
